---- MODULE Spec2Model ----
(***************************************************************************)
(* A model of the channel library: the ring buffer and the waiter set     *)
(* (container.ts), the rendezvous engine RW with its Reader and Writer    *)
(* pools (rw.ts), the Chan facade with its read/write cases (chan.ts) and  *)
(* selectChan (select.ts).                                                 *)
(*                                                                         *)
(* JavaScript runs one call at a time, so every public call (tryRead,      *)
(* read, tryWrite, write, selectChan, close, wait, the abort of a signal)  *)
(* is one atomic action that includes every callback the engine invokes    *)
(* synchronously inside it.  The mutable heap is gathered in one record    *)
(* (see Cur) that the operators below transform the way the code does.     *)
(*                                                                         *)
(* select.ts and chan.ts spell the cancellation method of a parked action  *)
(* "disconet"; the actions of rw.ts implement it under the name            *)
(* "disconnect".  The model binds the call to that method.                 *)
(***************************************************************************)
EXTENDS Integers, Sequences, FiniteSets, TLC

\* ---------------------------------------------------------------- bounds
\* callers of read, write and close: the largest buffer, the values written, the
\* calls that may park
MaxCap == 2
MaxVals == 3
MaxCalls == 2
\* callers that also use selectChan, and the cases of one selectChan
SelCap == 1
SelVals == 2
SelCalls == 2
MaxCases == 2
\* callers on two channels
TwoCap == 1
TwoVals == 2
TwoCalls == 1
\* a `for await` loop and its writers
IterCap == 2
IterVals == 3
IterCalls == 2
\* the tasks that await wait()
MaxWaits == 2
\* a Ring driven on its own: its largest capacity and the values pushed
RingCap == 3
RingVals == 6
\* an Actions list driven on its own: the elements pushed
ActElems == 6

\* capacity of the free lists of recycled actions: new Array(128)
FreeCap == 128

Chans == {"c1", "c2"}

\* null / undefined for values and object references (objects are numbered from 1)
Null == 0

Max(a, b) == IF a > b THEN a ELSE b

\* the element of a one-element set: The({e : x \in {v}}) is e with x naming the value of v
The(s) == CHOOSE x \in s : TRUE

\* ---------------------------------------------------------------- Map<T, number>
EmptyMap == [x \in {} |-> 0]
MapSet(m, k, v) == [x \in (DOMAIN m) \cup {k} |-> IF x = k THEN v ELSE m[x]]
MapDelete(m, k) == [x \in (DOMAIN m) \ {k} |-> m[x]]
\* keys.get(val) ?? -1
MapGet(m, k) == IF k \in DOMAIN m THEN m[k] ELSE -1

\* ---------------------------------------------------------------- Ring
\* arrs is the backing array (Null marks an empty slot), offset_ is 0-based
Ring(n) == [arrs |-> [i \in 1..n |-> Null], offset_ |-> 0, size_ |-> 0]

RingLength(r) == r.size_
RingCapacity(r) == Len(r.arrs)

\* a push without the test for a full ring: C20 does not hold of it
RingPushUnchecked(r, val) ==
    [ring |-> [r EXCEPT !.arrs[((r.offset_ + r.size_) % Len(r.arrs)) + 1] = val,
                        !.size_ = r.size_ + 1],
     ok |-> TRUE]

\* a push that counts the slot from the start of the array, not from offset_: C40
\* does not hold of it
RingPushAtSize(r, val) ==
    IF r.size_ = Len(r.arrs)
    THEN [ring |-> r, ok |-> FALSE]
    ELSE [ring |-> [r EXCEPT !.arrs[(r.size_ % Len(r.arrs)) + 1] = val, !.size_ = r.size_ + 1],
          ok |-> TRUE]

\* push(val): [ring, ok]
RingPush(r, val) ==
    IF r.size_ = Len(r.arrs)
    THEN [ring |-> r, ok |-> FALSE]
    ELSE [ring |-> [r EXCEPT !.arrs[((r.offset_ + r.size_) % Len(r.arrs)) + 1] = val,
                              !.size_ = r.size_ + 1],
          ok |-> TRUE]

\* a pop that takes the newest value, not the oldest: C3 does not hold of it
RingPopNewest(r) ==
    IF r.size_ = 0
    THEN [ring |-> r, done |-> TRUE, value |-> Null]
    ELSE [ring |-> [r EXCEPT !.arrs[((r.offset_ + r.size_ - 1) % Len(r.arrs)) + 1] = Null,
                             !.size_ = r.size_ - 1],
          done |-> FALSE, value |-> r.arrs[((r.offset_ + r.size_ - 1) % Len(r.arrs)) + 1]]

\* pop(): [ring, done, value]
RingPop(r) ==
    IF r.size_ = 0
    THEN [ring |-> r, done |-> TRUE, value |-> Null]
    ELSE LET val == r.arrs[r.offset_ + 1]
             off == r.offset_ + 1
         IN [ring |-> [r EXCEPT !.arrs[r.offset_ + 1] = Null,
                                !.offset_ = IF off = Len(r.arrs) THEN 0 ELSE off,
                                !.size_ = r.size_ - 1],
             done |-> FALSE, value |-> val]

\* the values of the ring, oldest first
RECURSIVE RingContents(_)
RingContents(r) ==
    IF r.size_ = 0 THEN <<>>
    ELSE LET p == RingPop(r) IN <<p.value>> \o RingContents(p.ring)

\* ---------------------------------------------------------------- Actions
\* actions is the array, keys the Map from element to its 0-based index
Actions == [actions |-> <<>>, keys |-> EmptyMap]

ActionsLength(A) == Len(A.actions)

\* _pop(): [A, val]
ActionsPopLast(A) ==
    IF Len(A.actions) = 0
    THEN [A |-> A, val |-> Null]
    ELSE [A |-> [A EXCEPT !.actions = SubSeq(A.actions, 1, Len(A.actions) - 1)],
          val |-> A.actions[Len(A.actions)]]

\* pop(): [A, val]
ActionsPop(A) ==
    The({[A |-> [p.A EXCEPT !.keys = MapDelete(p.A.keys, p.val)], val |-> p.val] :
           p \in {ActionsPopLast(A)}})

\* removeBy(i), i 0-based: [A, val]
ActionsRemoveBy(A, i) ==
    The({IF i = Len(p.A.actions)
         THEN [A |-> [p.A EXCEPT !.keys = MapDelete(p.A.keys, p.val)], val |-> p.val]
         ELSE [A |-> [actions |-> [p.A.actions EXCEPT ![i + 1] = p.val],
                      keys |-> MapSet(MapDelete(p.A.keys, p.A.actions[i + 1]), p.val, i)],
               val |-> p.A.actions[i + 1]] :
           p \in {ActionsPopLast(A)}})

\* a remove that does not record the new index of the element it moved: C39 does
\* not hold of it
ActionsRemoveStaleKey(A, val) ==
    IF MapGet(A.keys, val) < 0 THEN A
    ELSE The({IF MapGet(A.keys, val) = Len(p.A.actions)
              THEN [actions |-> p.A.actions, keys |-> MapDelete(p.A.keys, val)]
              ELSE [actions |-> [p.A.actions EXCEPT ![MapGet(A.keys, val) + 1] = p.val],
                    keys |-> MapDelete(p.A.keys, val)] :
                p \in {ActionsPopLast(A)}})

\* remove(val)
ActionsRemove(A, val) ==
    IF MapGet(A.keys, val) < 0 THEN A
    ELSE The({IF MapGet(A.keys, val) = Len(p.A.actions)
              THEN [actions |-> p.A.actions, keys |-> MapDelete(p.A.keys, val)]
              ELSE [actions |-> [p.A.actions EXCEPT ![MapGet(A.keys, val) + 1] = p.val],
                    keys |-> MapSet(MapDelete(p.A.keys, val), p.val, MapGet(A.keys, val))] :
                p \in {ActionsPopLast(A)}})

\* clear()
ActionsClear(A) == [actions |-> <<>>, keys |-> EmptyMap]

\* push(val)
ActionsPush(A, val) ==
    [actions |-> Append(A.actions, val), keys |-> MapSet(A.keys, val, Len(A.actions))]

\* ---------------------------------------------------------------- results
NoChan == "none"

\* ReadValue; closed is "true", "false" or "null"
ReadValue(closed, ok, value, reason) ==
    [t |-> "read", closed |-> closed, ok |-> ok, value |-> value, reason |-> reason]

\* WriteValue; error and reason are absent ("none") unless the write failed
WriteValue(ok, error, reason) ==
    [t |-> "write", ok |-> ok, error |-> error, reason |-> reason]

NoValue == [t |-> "none"]

\* IteratorResult
noResult == [done |-> TRUE, value |-> Null]
IterValue(v) == [done |-> FALSE, value |-> v]

NoCallback == [t |-> "none"]

\* ---------------------------------------------------------------- the heap
(***************************************************************************)
(* A heap S is a record:                                                   *)
(*   chan[c]   the RW of channel c: list (the Ring, or NoList), r (Reader:  *)
(*             closed, actions), w (Writer: closed_, actions), isClosed,    *)
(*             closed_ (the close notifier: a Completer, or Null)           *)
(*   completers[i]  the Completer objects: status and value of the promise,  *)
(*             awaiting (the tasks suspended in `await` on it)               *)
(*   ract[a]   the ReadAction objects: reader, callback                     *)
(*   wact[a]   the WirteAction objects: writer, value, callback             *)
(*   rlist     Reader.list, wlist  Writer.list: the free lists, FIFO rings  *)
(*             of FreeCap slots, kept as the sequence of their contents     *)
(*   cases[i]  the case objects: kind, ch, val, value_                      *)
(*   calls[k]  the pending calls (promises) of read, write and selectChan   *)
(*   err       the error an engine call threw                               *)
(* and, recorded for the properties only:                                  *)
(*   oks[c]    the values whose write on c reported ok                      *)
(*   got[c]    the values a read outcome of c carried                       *)
(*   dup       whether a value was reported ok twice or was read twice      *)
(*   q[c]      the values pushed to the buffer of c and not yet popped, in  *)
(*             the order of their pushes                                    *)
(*   fifo      whether every pop returned the oldest value of q[c]          *)
(*   calls[k].fired  how many callbacks of the parked actions of call k ran  *)
(*   completers[i].ch  the channel whose wait() made the Completer, and      *)
(*             completers[i].resumed  the tasks that have resumed from it    *)
(* The state also holds nvals (the values the callers have written so far), *)
(* iter (the generator of a `for await` loop) and lim (the bounds of the     *)
(* specification in use).                                                    *)
(***************************************************************************)
NoList == [undefined |-> TRUE]

HasList(S, c) == S.chan[c].list # NoList

\* new RW(buf)
RW(buf) ==
    [list |-> IF buf > 0 THEN Ring(buf) ELSE NoList,
     r |-> [closed |-> FALSE, actions |-> Actions],
     w |-> [closed_ |-> FALSE, actions |-> Actions],
     isClosed |-> FALSE,
     closed_ |-> Null]

\* RW.length, RW.capacity
RWLength(S, c) == IF HasList(S, c) THEN RingLength(S.chan[c].list) ELSE 0
RWCapacity(S, c) == IF HasList(S, c) THEN RingCapacity(S.chan[c].list) ELSE 0

NoFreeList == [defined |-> FALSE, items |-> <<>>]

\* Ring.push on a free list
FreePush(l, a) ==
    IF l.defined /\ Len(l.items) < FreeCap THEN [l EXCEPT !.items = Append(l.items, a)] ELSE l

\* ---------------------------------------------------------------- promises
\* resolve / reject settle a promise once; later calls are ignored
Resolve(S, k, res) ==
    IF S.calls[k].status = "pending"
    THEN [S EXCEPT !.calls[k].status = "resolved", !.calls[k].result = res]
    ELSE S

Reject(S, k, reason) ==
    IF S.calls[k].status = "pending"
    THEN [S EXCEPT !.calls[k].status = "rejected",
                   !.calls[k].result = [t |-> "error", reason |-> reason]]
    ELSE S

\* new Completer<null>() made by wait() of channel c
NewCompleter(c) == [ch |-> c, status |-> "pending", value |-> "none", awaiting |-> 0, resumed |-> 0]

\* Completer.resolve(null)
CompleterResolve(S, i) ==
    IF S.completers[i].status = "pending"
    THEN [S EXCEPT !.completers[i].status = "resolved", !.completers[i].value = "null"]
    ELSE S

\* `await promise` of Completer i: the task is suspended until the promise is settled
CompleterAwait(S, i) == [S EXCEPT !.completers[i].awaiting = @ + 1]

\* a task suspended on the promise of Completer i resumes
CompleterResume(S, i) ==
    [S EXCEPT !.completers[i].awaiting = @ - 1, !.completers[i].resumed = @ + 1]

\* a read outcome that carries a value / a write outcome that reports ok
ObserveRead(S, c, res) ==
    IF res.ok /\ res.value # Null
    THEN [S EXCEPT !.got[c] = @ \cup {res.value},
                   !.dup = @ \/ \E d \in Chans : res.value \in S.got[d]]
    ELSE S

ObserveWrite(S, c, v, res) ==
    IF res.ok
    THEN [S EXCEPT !.oks[c] = @ \cup {v}, !.dup = @ \/ \E d \in Chans : v \in S.oks[d]]
    ELSE S

\* a value enters / leaves the buffer of c
ObservePush(S, c, ok, v) == IF ok THEN [S EXCEPT !.q[c] = Append(@, v)] ELSE S

ObservePop(S, c, v) ==
    IF S.q[c] # <<>> /\ Head(S.q[c]) = v
    THEN [S EXCEPT !.q[c] = Tail(@)]
    ELSE [S EXCEPT !.fifo = FALSE]

\* ---------------------------------------------------------------- Reader
\* Reader.disconnect(action)
ReaderDisconnect(S, c, a) ==
    [S EXCEPT !.chan[c].r.actions = ActionsRemove(@, a),
              !.rlist = FreePush(@, a)]

\* ReadAction.disconnect()
ReadActionDisconnect(S, a) ==
    LET reader == S.ract[a].reader
    IN IF reader # NoChan
       THEN ReaderDisconnect([S EXCEPT !.ract[a] = [reader |-> NoChan, callback |-> NoCallback]],
                             reader, a)
       ELSE S

\* new ReadAction(this, callback): [s, action]
ReaderFresh(S, c, callback) ==
    [s |-> [S EXCEPT !.ract = Append(@, [reader |-> c, callback |-> callback])],
     action |-> Len(S.ract) + 1]

\* Reader.create(callback): [s, action]
ReaderCreate(S, c, callback) ==
    IF S.rlist.defined
    THEN IF Len(S.rlist.items) > 0
         THEN [s |-> [S EXCEPT !.rlist.items = Tail(@),
                               !.ract[Head(S.rlist.items)] = [reader |-> c, callback |-> callback]],
               action |-> Head(S.rlist.items)]
         ELSE ReaderFresh(S, c, callback)
    ELSE ReaderFresh([S EXCEPT !.rlist.defined = TRUE], c, callback)

\* Reader.connect(callback): [s, action]
ReaderConnect(S, c, callback) ==
    The({[s |-> [n.s EXCEPT !.chan[c].r.actions = ActionsPush(@, n.action)],
          action |-> n.action] : n \in {ReaderCreate(S, c, callback)}})

\* ---------------------------------------------------------------- Writer
\* Writer.disconnect(action)
WriterDisconnect(S, c, a) ==
    [S EXCEPT !.chan[c].w.actions = ActionsRemove(@, a),
              !.wlist = FreePush(@, a)]

\* WirteAction.disconnect()
WirteActionDisconnect(S, a) ==
    LET writer == S.wact[a].writer
    IN IF writer # NoChan
       THEN WriterDisconnect(
                [S EXCEPT !.wact[a] = [writer |-> NoChan, value |-> Null, callback |-> NoCallback]],
                writer, a)
       ELSE S

\* Writer.create: the free list.  An action taken from it is given the new fields,
\* but the action Writer.create returns is always a new one.
WriterRecycle(S, fields) ==
    IF S.wlist.defined
    THEN IF Len(S.wlist.items) > 0
         THEN [S EXCEPT !.wlist.items = Tail(@), !.wact[Head(S.wlist.items)] = fields]
         ELSE S
    ELSE [S EXCEPT !.wlist.defined = TRUE]

\* Writer.create(value, callback): [s, action]
WriterCreate(S, c, value, callback) ==
    The({[s |-> [S1 EXCEPT !.wact = Append(@, [writer |-> c, value |-> value, callback |-> callback])],
          action |-> Len(S1.wact) + 1] :
            S1 \in {WriterRecycle(S, [writer |-> c, value |-> value, callback |-> callback])}})

\* Writer.connect(value, callback): [s, action]
WriterConnect(S, c, value, callback) ==
    The({[s |-> [n.s EXCEPT !.chan[c].w.actions = ActionsPush(@, n.action)],
          action |-> n.action] : n \in {WriterCreate(S, c, value, callback)}})

\* Connection.disconet() of a parked action; conn is [t |-> "r" or "w", a |-> action]
ConnDisconnect(S, conn) ==
    IF conn.t = "r" THEN ReadActionDisconnect(S, conn.a) ELSE WirteActionDisconnect(S, conn.a)

\* ---------------------------------------------------------------- callbacks
\* for (const conn of conns) conn.disconet()
RECURSIVE DisconnectAll(_, _)
DisconnectAll(S, conns) ==
    IF conns = <<>> THEN S
    ELSE DisconnectAll(ConnDisconnect(S, Head(conns)), Tail(conns))

\* a cleanup that removes the abort listener and leaves the other cases parked:
\* C11 does not hold of it
SelectCleanupKeepsCases(S, k, aborted) ==
    IF aborted THEN S ELSE [S EXCEPT !.calls[k].listening = FALSE]

\* selectChan: cleanup(aborted)
SelectCleanup(S, k, aborted) ==
    LET S1 == IF aborted THEN S ELSE [S EXCEPT !.calls[k].listening = FALSE]
    IN DisconnectAll(S1, S1.calls[k].conns)

\* selectChan: cb after cleanup: the call settles with the case or with the reason
SelectSettle(S, k, c, hasError, reason) ==
    IF hasError
    THEN IF S.calls[k].silent
         THEN Resolve(S, k, [t |-> "aborted", reason |-> reason])
         ELSE Reject(S, k, reason)
    ELSE Resolve(S, k, [t |-> "case", case |-> c])

\* selectChan: cb(c, hasError, reason)
SelectCb(S, k, c, hasError, reason) ==
    SelectSettle(SelectCleanup(S, k, FALSE), k, c, hasError, reason)

\* the outcome _ReadCase.invoke stores when its parked read fires
ReadCaseFired(val) ==
    IF val.done
    THEN ReadValue("true", TRUE, val.value, "none")
    ELSE ReadValue("false", TRUE, val.value, "none")

\* a callback of a parked action of call k runs
ObserveFired(S, k) == [S EXCEPT !.calls[k].fired = @ + 1]

\* _ReadCase.invoke: the callback given to rw.read
ReadCaseCallback(S, cb, val) ==
    SelectCb(ObserveFired(ObserveRead([S EXCEPT !.cases[cb.case].value_ = ReadCaseFired(val)],
                                      S.cases[cb.case].ch, ReadCaseFired(val)),
                          cb.call),
             cb.call, cb.case, FALSE, "none")

\* the outcome Chan.read resolves with when its parked read fires
ReadFired(val) ==
    IF val.done
    THEN ReadValue("true", FALSE, Null, "none")
    ELSE ReadValue("false", TRUE, val.value, "none")

\* Chan.read: the callback given to rw.read
ChanReadCallback(S, cb, val) ==
    Resolve(ObserveRead(ObserveFired([S EXCEPT !.calls[cb.call].listening = FALSE], cb.call),
                        cb.ch, ReadFired(val)),
            cb.call, ReadFired(val))

\* ReadAction.invoke(val)
ReadActionInvoke(S, a, val) ==
    LET cb == S.ract[a].callback
    IN CASE cb.t = "read" -> ChanReadCallback(S, cb, val)
         [] cb.t = "rcase" -> ReadCaseCallback(S, cb, val)
         [] OTHER -> S

\* _WriteCase.invoke: the callback given to rw.write; ok is FALSE for undefined
WriteCaseCallback(S, cb, ok, reason) ==
    LET c == S.cases[cb.case]
    IN IF ~ok
       THEN SelectCb(ObserveFired([S EXCEPT !.cases[cb.case].value_ = WriteValue(FALSE, TRUE, reason)],
                                  cb.call),
                     cb.call, cb.case, TRUE, reason)
       ELSE SelectCb(ObserveFired(ObserveWrite([S EXCEPT !.cases[cb.case].value_ =
                                                              WriteValue(TRUE, FALSE, "none")],
                                               c.ch, c.val, WriteValue(TRUE, FALSE, "none")),
                                  cb.call),
                     cb.call, cb.case, FALSE, "none")

\* Chan.write: the callback given to rw.write
ChanWriteCallback(S, cb, ok, reason) ==
    The({IF ~ok
         THEN IF S1.calls[cb.call].silent
              THEN Resolve(S1, cb.call, WriteValue(FALSE, TRUE, reason))
              ELSE Reject(S1, cb.call, reason)
         ELSE Resolve(ObserveWrite(S1, cb.ch, cb.val, WriteValue(TRUE, FALSE, "none")),
                      cb.call, WriteValue(TRUE, FALSE, "none")) :
           S1 \in {ObserveFired([S EXCEPT !.calls[cb.call].listening = FALSE], cb.call)}})

\* the callback of a WirteAction, called with (true) or with (undefined, reason)
WriteCallback(S, a, ok, reason) ==
    LET cb == S.wact[a].callback
    IN CASE cb.t = "write" -> ChanWriteCallback(S, cb, ok, reason)
         [] cb.t = "wcase" -> WriteCaseCallback(S, cb, ok, reason)
         [] OTHER -> S

\* WirteAction.invoke()
WirteActionInvoke(S, a) == WriteCallback(S, a, TRUE, "none")

\* WirteAction.close(reason)
WirteActionClose(S, a, reason) == WriteCallback(S, a, FALSE, reason)

\* ---------------------------------------------------------------- pools
\* Math.floor(Math.random() * n), Math.random() being rand.num / rand.den
RandomIndex(rand, n) == (rand.num * n) \div rand.den

Throw(S, e) == [S EXCEPT !.err = e]

\* Reader.invoke: the action p.val, taken from the pool, is invoked
ReaderTake(S, c, p, val) ==
    ReadActionInvoke([S EXCEPT !.chan[c].r.actions = p.A], p.val, val)

\* an invoke that always takes the reader parked last: C29 does not hold of it
ReaderInvokeLast(S, c, val, rand) ==
    IF ActionsLength(S.chan[c].r.actions) = 0 THEN Throw(S, "reader empty")
    ELSE ReaderTake(S, c, ActionsPop(S.chan[c].r.actions), val)

\* Reader.invoke(val)
ReaderInvoke(S, c, val, rand) ==
    CASE ActionsLength(S.chan[c].r.actions) = 0 -> Throw(S, "reader empty")
      [] ActionsLength(S.chan[c].r.actions) = 1 ->
           ReaderTake(S, c, ActionsPop(S.chan[c].r.actions), val)
      [] OTHER ->
           ReaderTake(S, c, ActionsRemoveBy(S.chan[c].r.actions,
                                            RandomIndex(rand, ActionsLength(S.chan[c].r.actions))),
                      val)

\* Reader.close(): the loop over the live array of actions, from index i
RECURSIVE ReaderCloseLoop(_, _, _)
ReaderCloseLoop(S, c, i) ==
    LET actions == S.chan[c].r.actions.actions
    IN IF i < Len(actions)
       THEN ReaderCloseLoop(ReadActionInvoke(S, actions[i + 1], noResult), c, i + 1)
       ELSE S

\* Reader.close()
ReaderClose(S, c) ==
    IF S.chan[c].r.closed THEN S
    ELSE IF ActionsLength(S.chan[c].r.actions) # 0
    THEN [ReaderCloseLoop([S EXCEPT !.chan[c].r.closed = TRUE], c, 0)
            EXCEPT !.chan[c].r.actions = ActionsClear(@)]
    ELSE [S EXCEPT !.chan[c].r.closed = TRUE]

\* Writer.invoke: the action p.val, taken from the pool, is invoked: [s, val]
WriterTake(S, c, p) ==
    [s |-> WirteActionInvoke([S EXCEPT !.chan[c].w.actions = p.A], p.val),
     val |-> S.wact[p.val].value]

\* Writer.invoke(): [s, val]
WriterInvoke(S, c, rand) ==
    CASE ActionsLength(S.chan[c].w.actions) = 0 -> [s |-> Throw(S, "writer empty"), val |-> Null]
      [] ActionsLength(S.chan[c].w.actions) = 1 -> WriterTake(S, c, ActionsPop(S.chan[c].w.actions))
      [] OTHER ->
           WriterTake(S, c, ActionsRemoveBy(S.chan[c].w.actions,
                                            RandomIndex(rand, ActionsLength(S.chan[c].w.actions))))

\* Writer.close(): the loop over the live array of actions, from index i
RECURSIVE WriterCloseLoop(_, _, _)
WriterCloseLoop(S, c, i) ==
    LET actions == S.chan[c].w.actions.actions
    IN IF i < Len(actions)
       THEN WriterCloseLoop(WirteActionClose(S, actions[i + 1], "closed"), c, i + 1)
       ELSE S

\* Writer.close()
WriterClose(S, c) ==
    IF S.chan[c].w.closed_ THEN S
    ELSE IF ActionsLength(S.chan[c].w.actions) # 0
    THEN [WriterCloseLoop([S EXCEPT !.chan[c].w.closed_ = TRUE], c, 0)
            EXCEPT !.chan[c].w.actions = ActionsClear(@)]
    ELSE [S EXCEPT !.chan[c].w.closed_ = TRUE]

\* ---------------------------------------------------------------- RW
Undefined == [t |-> "undefined"]

\* RW.tryRead(), nothing was popped: closed, or a value taken from a parked writer
RWTryReadWriter(S, c, rand) ==
    IF S.chan[c].isClosed THEN [s |-> S, r |-> Undefined]
    ELSE IF ActionsLength(S.chan[c].w.actions) = 0 THEN [s |-> S, r |-> noResult]
    ELSE The({[s |-> w.s, r |-> IterValue(w.val)] : w \in {WriterInvoke(S, c, rand)}})

\* a tryRead that leaves the parked writers alone after it popped a value: C23 does
\* not hold of it
RWTryReadNoRefill(S, c, rand) == S

\* a refill that wakes the parked writer and drops its value: C2 does not hold of it
RWTryReadRefillLost(S, c, rand) ==
    IF ActionsLength(S.chan[c].w.actions) # 0 THEN WriterInvoke(S, c, rand).s ELSE S

\* RW.tryRead(), a value was popped: a parked writer, if any, refills the slot
RWTryReadRefill(S, c, rand) ==
    IF ActionsLength(S.chan[c].w.actions) # 0
    THEN The({The({ObservePush([w.s EXCEPT !.chan[c].list = p.ring], c, p.ok, w.val) :
                     p \in {RingPush(w.s.chan[c].list, w.val)}}) :
                w \in {WriterInvoke(S, c, rand)}})
    ELSE S

\* a tryRead that tests isClosed before it looks at the buffer: C7 does not hold of it
RWTryReadClosedFirst(S, c, rand) ==
    IF S.chan[c].isClosed THEN [s |-> S, r |-> Undefined]
    ELSE IF HasList(S, c) /\ RingLength(S.chan[c].list) # 0
    THEN The({[s |-> RWTryReadRefill(
                         ObservePop([S EXCEPT !.chan[c].list = result.ring], c, result.value),
                         c, rand),
               r |-> IterValue(result.value)] : result \in {RingPop(S.chan[c].list)}})
    ELSE RWTryReadWriter(S, c, rand)

\* RW.tryRead(): [s, r], r an IteratorResult or Undefined
RWTryRead(S, c, rand) ==
    IF HasList(S, c) /\ RingLength(S.chan[c].list) # 0
    THEN The({[s |-> RWTryReadRefill(
                         ObservePop([S EXCEPT !.chan[c].list = result.ring], c, result.value),
                         c, rand),
               r |-> IterValue(result.value)] : result \in {RingPop(S.chan[c].list)}})
    ELSE RWTryReadWriter(S, c, rand)

\* RW.read(callback): [s, action]
RWRead(S, c, callback) == ReaderConnect(S, c, callback)

\* a tryWrite whose test of isClosed is the assignment `isClosed = false`: C19 does
\* not hold of it
RWTryWriteReopens(S, c, val, rand) ==
    IF ActionsLength(S.chan[c].r.actions) = 0
    THEN IF HasList(S, c)
         THEN The({[s |-> ObservePush([S EXCEPT !.chan[c].list = p.ring, !.chan[c].isClosed = FALSE],
                                      c, p.ok, val),
                    r |-> IF p.ok THEN "true" ELSE "false"] :
                     p \in {RingPush(S.chan[c].list, val)}})
         ELSE [s |-> [S EXCEPT !.chan[c].isClosed = FALSE], r |-> "false"]
    ELSE [s |-> ReaderInvoke([S EXCEPT !.chan[c].isClosed = FALSE], c, IterValue(val), rand),
          r |-> "true"]

\* a tryWrite that reports true on an unbuffered channel without a reader: C4 does
\* not hold of it
RWTryWriteUnpaired(S, c, val, rand) ==
    IF S.chan[c].isClosed THEN [s |-> S, r |-> "undefined"]
    ELSE IF ActionsLength(S.chan[c].r.actions) = 0
    THEN IF HasList(S, c)
         THEN The({[s |-> ObservePush([S EXCEPT !.chan[c].list = p.ring], c, p.ok, val),
                    r |-> IF p.ok THEN "true" ELSE "false"] :
                     p \in {RingPush(S.chan[c].list, val)}})
         ELSE [s |-> S, r |-> "true"]
    ELSE [s |-> ReaderInvoke(S, c, IterValue(val), rand), r |-> "true"]

\* a tryWrite that hands the value to the reader pool without testing isEmpty: C36
\* does not hold of it
RWTryWriteUnguarded(S, c, val, rand) ==
    IF S.chan[c].isClosed THEN [s |-> S, r |-> "undefined"]
    ELSE [s |-> ReaderInvoke(S, c, IterValue(val), rand), r |-> "true"]

\* RW.tryWrite(val): [s, r], r is "undefined", "true" or "false"
RWTryWrite(S, c, val, rand) ==
    IF S.chan[c].isClosed THEN [s |-> S, r |-> "undefined"]
    ELSE IF ActionsLength(S.chan[c].r.actions) = 0
    THEN IF HasList(S, c)
         THEN The({[s |-> ObservePush([S EXCEPT !.chan[c].list = p.ring], c, p.ok, val),
                    r |-> IF p.ok THEN "true" ELSE "false"] :
                     p \in {RingPush(S.chan[c].list, val)}})
         ELSE [s |-> S, r |-> "false"]
    ELSE [s |-> ReaderInvoke(S, c, IterValue(val), rand), r |-> "true"]

\* RW.write(val, callback): [s, action]
RWWrite(S, c, val, callback) == WriterConnect(S, c, val, callback)

\* RW.close(): the close notifier, if any, is dropped and resolved
RWCloseNotify(S, c) ==
    IF S.chan[c].closed_ # Null
    THEN CompleterResolve([S EXCEPT !.chan[c].closed_ = Null], S.chan[c].closed_)
    ELSE S

\* a close without the test of isClosed: C18 does not hold of it
RWCloseAgain(S, c) ==
    [s |-> RWCloseNotify(ReaderClose(WriterClose([S EXCEPT !.chan[c].isClosed = TRUE], c), c), c),
     r |-> TRUE]

\* RW.close(): [s, r]
RWClose(S, c) ==
    IF S.chan[c].isClosed THEN [s |-> S, r |-> FALSE]
    ELSE [s |-> RWCloseNotify(ReaderClose(WriterClose([S EXCEPT !.chan[c].isClosed = TRUE], c), c), c),
          r |-> TRUE]

\* a wait that makes a new Completer at every call: C24 does not hold of it
RWWaitFresh(S, c) ==
    IF S.chan[c].isClosed THEN [s |-> S, r |-> Null]
    ELSE [s |-> [S EXCEPT !.completers = Append(@, NewCompleter(c)),
                          !.chan[c].closed_ = Len(S.completers) + 1],
          r |-> Len(S.completers) + 1]

\* RW.wait(): [s, r], r is Null or the Completer whose promise is returned
RWWait(S, c) ==
    IF S.chan[c].isClosed THEN [s |-> S, r |-> Null]
    ELSE IF S.chan[c].closed_ # Null THEN [s |-> S, r |-> S.chan[c].closed_]
    ELSE [s |-> [S EXCEPT !.completers = Append(@, NewCompleter(c)),
                          !.chan[c].closed_ = Len(S.completers) + 1],
          r |-> Len(S.completers) + 1]

\* ---------------------------------------------------------------- Chan
(***************************************************************************)
(* Options are [signal, silent]; signal is "none" (no signal given),       *)
(* "live" (a signal that may abort later) or "aborted" (already aborted).  *)
(* A call returns [s, status, result]: status "returned" with the value,   *)
(* "thrown" with [t |-> "error", reason], or "promise" with the new call.  *)
(***************************************************************************)
Returned(S, res) == [s |-> S, status |-> "returned", result |-> res]
Thrown(S, reason) == [s |-> S, status |-> "thrown", result |-> [t |-> "error", reason |-> reason]]
Promise(S, k) == [s |-> S, status |-> "promise", result |-> [t |-> "call", call |-> k]]

\* a tryRead that takes "no value yet" for the end of the stream: C30 does not hold
\* of it
ChanTryReadValueEnds(val) ==
    IF val.r = Undefined \/ val.r.done THEN ReadValue("true", FALSE, Null, "none")
    ELSE ReadValue("false", TRUE, val.r.value, "none")

\* Chan.tryRead: the ReadValue made of what rw.tryRead returned
ChanTryReadValue(val) ==
    IF val.r = Undefined THEN ReadValue("true", FALSE, Null, "none")
    ELSE IF val.r.done THEN ReadValue("false", FALSE, Null, "none")
    ELSE ReadValue("false", TRUE, val.r.value, "none")

\* a tryRead that looks at the signal only after rw.tryRead: C32 does not hold of it
ChanTryReadAbortLast(S, c, opts, rand) ==
    The({IF opts.signal = "aborted"
         THEN IF opts.silent
              THEN Returned(val.s, ReadValue("null", FALSE, Null, "abort"))
              ELSE Thrown(val.s, "abort")
         ELSE Returned(ObserveRead(val.s, c, ChanTryReadValue(val)), ChanTryReadValue(val)) :
           val \in {RWTryRead(S, c, rand)}})

\* Chan.tryRead(opts)
ChanTryRead(S, c, opts, rand) ==
    IF opts.signal = "aborted"
    THEN IF opts.silent
         THEN Returned(S, ReadValue("null", FALSE, Null, "abort"))
         ELSE Thrown(S, "abort")
    ELSE The({Returned(ObserveRead(val.s, c, ChanTryReadValue(val)), ChanTryReadValue(val)) :
                val \in {RWTryRead(S, c, rand)}})

\* a new pending call (the promise and what its closures hold)
NewCall(kind, c, opts, action, conns) ==
    [kind |-> kind, ch |-> c, status |-> "pending", result |-> NoValue,
     silent |-> opts.silent, signal |-> opts.signal, listening |-> opts.signal = "live",
     action |-> action, conns |-> conns, fired |-> 0]

\* Chan.read: the promise; k is the new call
ChanReadPark(S, c, opts, k) ==
    The({Promise([n.s EXCEPT !.calls = Append(@, NewCall("read", c, opts, n.action, <<>>))], k) :
           n \in {RWRead(S, c, [t |-> "read", call |-> k, ch |-> c])}})

\* a read that parks without trying the buffer first: C22 does not hold of it
ChanReadParksFirst(S, c, opts, rand) ==
    IF opts.signal = "aborted" THEN ChanTryRead(S, c, opts, rand)
    ELSE ChanReadPark(S, c, opts, Len(S.calls) + 1)

\* Chan.read(opts)
ChanRead(S, c, opts, rand) ==
    The({IF val.status = "thrown" THEN val
         ELSE IF val.result.closed # "false" \/ val.result.ok THEN val
         ELSE ChanReadPark(val.s, c, opts, Len(val.s.calls) + 1) :
           val \in {ChanTryRead(S, c, opts, rand)}})

\* Chan.read: onAbort after cleanup
ChanReadAborted(S, k) ==
    IF S.calls[k].silent
    THEN Resolve(S, k, ReadValue("null", FALSE, Null, "abort"))
    ELSE Reject(S, k, "abort")

\* an onAbort that settles the promise and leaves the reader parked: C16 does not
\* hold of it
ChanReadOnAbortStaysParked(S, k) == ChanReadAborted(S, k)

\* Chan.read: onAbort
ChanReadOnAbort(S, k) == ChanReadAborted(ReadActionDisconnect(S, S.calls[k].action), k)

\* a tryWrite that reports a closed channel as one that is not ready: C6 does not
\* hold of it
ChanTryWriteValueQuiet(result, c, val, opts) ==
    IF result.r = "true"
    THEN Returned(ObserveWrite(result.s, c, val, WriteValue(TRUE, FALSE, "none")),
                  WriteValue(TRUE, FALSE, "none"))
    ELSE Returned(result.s, WriteValue(FALSE, FALSE, "none"))

\* Chan.tryWrite: the WriteValue made of what rw.tryWrite returned
ChanTryWriteValue(result, c, val, opts) ==
    IF result.r = "undefined"
    THEN IF opts.silent
         THEN Returned(result.s, WriteValue(FALSE, TRUE, "closed"))
         ELSE Thrown(result.s, "closed")
    ELSE IF result.r = "true"
    THEN Returned(ObserveWrite(result.s, c, val, WriteValue(TRUE, FALSE, "none")),
                  WriteValue(TRUE, FALSE, "none"))
    ELSE Returned(result.s, WriteValue(FALSE, FALSE, "none"))

\* Chan.tryWrite(val, opts)
ChanTryWrite(S, c, val, opts, rand) ==
    IF opts.signal = "aborted"
    THEN IF opts.silent
         THEN Returned(S, WriteValue(FALSE, TRUE, "abort"))
         ELSE Thrown(S, "abort")
    ELSE ChanTryWriteValue(RWTryWrite(S, c, val, rand), c, val, opts)

\* Chan.write: the promise; k is the new call
ChanWritePark(S, c, val, opts, k) ==
    The({Promise([n.s EXCEPT !.calls = Append(@, NewCall("write", c, opts, n.action, <<>>))], k) :
           n \in {RWWrite(S, c, val, [t |-> "write", call |-> k, ch |-> c, val |-> val])}})

\* Chan.write(val, opts)
ChanWrite(S, c, val, opts, rand) ==
    The({IF value.status = "thrown" THEN value
         ELSE IF value.result.ok \/ value.result.error THEN value
         ELSE ChanWritePark(value.s, c, val, opts, Len(value.s.calls) + 1) :
           value \in {ChanTryWrite(S, c, val, opts, rand)}})

\* Chan.write: onAbort after cleanup
ChanWriteAborted(S, k) ==
    IF S.calls[k].silent
    THEN Resolve(S, k, WriteValue(FALSE, TRUE, "abort"))
    ELSE Reject(S, k, "abort")

\* an onAbort that settles the promise and leaves the writer parked: C31 does not
\* hold of it
ChanWriteOnAbortStaysParked(S, k) == ChanWriteAborted(S, k)

\* Chan.write: onAbort
ChanWriteOnAbort(S, k) == ChanWriteAborted(WirteActionDisconnect(S, S.calls[k].action), k)

\* Chan.close() / Chan.wait()
ChanClose(S, c) == RWClose(S, c)
ChanWait(S, c) == RWWait(S, c)

\* ---------------------------------------------------------------- cases
\* Chan.readCase() / Chan.writeCase(val): a new case object
NewReadCase(c) == [kind |-> "read", ch |-> c, val |-> Null, value_ |-> NoValue]
NewWriteCase(c, val) == [kind |-> "write", ch |-> c, val |-> val, value_ |-> NoValue]

\* a readCase that keeps one case object per channel and returns it again: C26
\* does not hold of it
ChanReadCaseShared(S, c) ==
    IF \E i \in DOMAIN S.cases : S.cases[i].kind = "read" /\ S.cases[i].ch = c
    THEN [s |-> S,
          case |-> CHOOSE i \in DOMAIN S.cases : S.cases[i].kind = "read" /\ S.cases[i].ch = c]
    ELSE [s |-> [S EXCEPT !.cases = Append(@, NewReadCase(c))], case |-> Len(S.cases) + 1]

\* Chan.readCase(): [s, case], case is the object `new _ReadCase` made
ChanReadCase(S, c) ==
    [s |-> [S EXCEPT !.cases = Append(@, NewReadCase(c))], case |-> Len(S.cases) + 1]

\* Chan.writeCase(val): [s, case], case is the object `new _WriteCase` made
ChanWriteCase(S, c, val) ==
    [s |-> [S EXCEPT !.cases = Append(@, NewWriteCase(c, val))], case |-> Len(S.cases) + 1]

\* reset()
CaseReset(S, i) == [S EXCEPT !.cases[i].value_ = NoValue]

\* _ReadCase.tryInvoke: the outcome is stored in value_
ReadCaseStore(S, i, res) ==
    [s |-> ObserveRead([S EXCEPT !.cases[i].value_ = res], S.cases[i].ch, res),
     status |-> "returned", r |-> TRUE]

\* a tryInvoke that takes "no value yet" for an outcome: C14 and C15 do not hold of it
ReadCaseTryInvokeEager(S, i, rand) ==
    The({IF val.r = Undefined
         THEN ReadCaseStore(val.s, i, ReadValue("true", FALSE, Null, "none"))
         ELSE IF val.r.done
         THEN ReadCaseStore(val.s, i, ReadValue("false", FALSE, Null, "none"))
         ELSE ReadCaseStore(val.s, i, ReadValue("false", TRUE, val.r.value, "none")) :
           val \in {RWTryRead(S, S.cases[i].ch, rand)}})

\* _ReadCase.tryInvoke(): [s, status, r]
ReadCaseTryInvoke(S, i, rand) ==
    The({IF val.r = Undefined
         THEN ReadCaseStore(val.s, i, ReadValue("true", FALSE, Null, "none"))
         ELSE IF val.r.done
         THEN [s |-> val.s, status |-> "returned", r |-> FALSE]
         ELSE ReadCaseStore(val.s, i, ReadValue("false", TRUE, val.r.value, "none")) :
           val \in {RWTryRead(S, S.cases[i].ch, rand)}})

\* _WriteCase.tryInvoke(silent): [s, status, r]; tryWrite always sets ok, so
\* the branch taken when val.ok is undefined needs an outcome without that field
WriteCaseTryInvoke(S, i, silent, rand) ==
    The({IF val.status = "thrown"
         THEN [s |-> val.s, status |-> "thrown", r |-> val.result.reason]
         ELSE IF "ok" \notin DOMAIN val.result
         THEN [s |-> [val.s EXCEPT !.cases[i].value_ = WriteValue(FALSE, TRUE, val.result.reason)],
               status |-> "returned", r |-> TRUE]
         ELSE IF val.result.ok
         THEN [s |-> [val.s EXCEPT !.cases[i].value_ = WriteValue(TRUE, FALSE, "none")],
               status |-> "returned", r |-> TRUE]
         ELSE [s |-> val.s, status |-> "returned", r |-> FALSE] :
           val \in {ChanTryWrite(S, S.cases[i].ch, S.cases[i].val,
                                 [signal |-> "none", silent |-> silent], rand)}})

\* ChanCase.tryInvoke(silent)
CaseTryInvoke(S, i, silent, rand) ==
    IF S.cases[i].kind = "read" THEN ReadCaseTryInvoke(S, i, rand)
    ELSE WriteCaseTryInvoke(S, i, silent, rand)

\* ChanCase.invoke(cb): parks the case for call k: [s, conn]
CaseInvoke(S, i, k) ==
    IF S.cases[i].kind = "read"
    THEN The({[s |-> n.s, conn |-> [t |-> "r", a |-> n.action]] :
                n \in {RWRead(S, S.cases[i].ch, [t |-> "rcase", case |-> i, call |-> k])}})
    ELSE The({[s |-> n.s, conn |-> [t |-> "w", a |-> n.action]] :
                n \in {RWWrite(S, S.cases[i].ch, S.cases[i].val,
                               [t |-> "wcase", case |-> i, call |-> k])}})

\* ---------------------------------------------------------------- selectChan
\* opts.chans?.filter((v) => v ? true : false)
RECURSIVE FilterCases(_)
FilterCases(chans) ==
    IF chans = <<>> THEN <<>>
    ELSE IF Head(chans) # Null THEN <<Head(chans)>> \o FilterCases(Tail(chans))
    ELSE FilterCases(Tail(chans))

\* a shuffle that leaves the list as it is: C15 does not hold of it
shuffleNone(arrs, c, rs) == arrs

\* shuffle(arrs, c); rs[c] / Len(arrs) is the value Math.random() returns at step c
RECURSIVE shuffle(_, _, _)
shuffle(arrs, c, rs) ==
    IF c = 0 THEN arrs
    ELSE LET r == RandomIndex([num |-> rs[c], den |-> Len(arrs)], c)
             c1 == c - 1
         IN shuffle([arrs EXCEPT ![c1 + 1] = arrs[r + 1], ![r + 1] = arrs[c1 + 1]], c1, rs)

\* a selectChan that leaves the outcome slots as they are: C33 does not hold of it
ResetNone(S, chans) == S

\* the arrays selectChan works with: opts.chans, and the new array filter() returns,
\* which is the one shuffle() reorders in place: [caller, chans] after the shuffle
SelectArrays(chans, rs) ==
    LET arrays == <<chans, FilterCases(chans)>>
    IN The({[caller |-> shuffled[1], chans |-> shuffled[2]] :
              shuffled \in {[arrays EXCEPT ![2] = shuffle(@, Len(@), rs)]}})

\* for (const chan of chans) chan.reset()
RECURSIVE ResetAll(_, _)
ResetAll(S, chans) ==
    IF chans = <<>> THEN S ELSE ResetAll(CaseReset(S, Head(chans)), Tail(chans))

\* a loop that goes on trying the cases after the first that completes: C35 does
\* not hold of it
RECURSIVE TryAllGoesOn(_, _, _, _)
TryAllGoesOn(S, chans, silent, rand) ==
    IF chans = <<>> THEN [s |-> S, status |-> "none", r |-> Null]
    ELSE The({IF v.status = "thrown" THEN v
              ELSE IF v.r
              THEN [s |-> TryAllGoesOn(v.s, Tail(chans), silent, rand).s,
                    status |-> "returned", r |-> Head(chans)]
              ELSE TryAllGoesOn(v.s, Tail(chans), silent, rand) :
                v \in {CaseTryInvoke(S, Head(chans), silent, rand)}})

\* for (const chan of chans) if (chan.tryInvoke(silent)) return chan
\* [s, status, r]: status "returned" with the case, "thrown", or "none"
RECURSIVE TryAll(_, _, _, _)
TryAll(S, chans, silent, rand) ==
    IF chans = <<>> THEN [s |-> S, status |-> "none", r |-> Null]
    ELSE The({IF v.status = "thrown" THEN v
              ELSE IF v.r THEN [s |-> v.s, status |-> "returned", r |-> Head(chans)]
              ELSE TryAll(v.s, Tail(chans), silent, rand) :
                v \in {CaseTryInvoke(S, Head(chans), silent, rand)}})

\* for (i...) conns[i] = chans[i].invoke(cb): [s, conns]
RECURSIVE InvokeAll(_, _, _, _)
InvokeAll(S, chans, k, conns) ==
    IF chans = <<>> THEN [s |-> S, conns |-> conns]
    ELSE The({InvokeAll(n.s, Tail(chans), k, Append(conns, n.conn)) :
                n \in {CaseInvoke(S, Head(chans), k)}})

\* the promise that never resolves
neverPromise == 0

\* a selectChan after whose parking a channel with a parked reader and a parked
\* writer hands the writer's value to the reader: C38 does not hold of it
SelectParkPairs(S, chans, opts, k) ==
    The({The({IF \E c \in Chans : ActionsLength(P.chan[c].r.actions) > 0
                                     /\ ActionsLength(P.chan[c].w.actions) > 0
              THEN The({Promise(ReaderInvoke(P, c,
                                             IterValue(P.wact[P.chan[c].w.actions.actions[1]].value),
                                             [num |-> 0, den |-> 1]), k) :
                          c \in {CHOOSE x \in Chans : ActionsLength(P.chan[x].r.actions) > 0
                                                        /\ ActionsLength(P.chan[x].w.actions) > 0}})
              ELSE Promise(P, k) :
                P \in {[n.s EXCEPT !.calls = Append(@, NewCall("select", NoChan, opts, Null, n.conns))]}}) :
           n \in {InvokeAll(S, chans, k, <<>>)}})

\* selectChan: the promise; every case is parked for the new call k
SelectPark(S, chans, opts, k) ==
    The({Promise([n.s EXCEPT !.calls = Append(@, NewCall("select", NoChan, opts, Null, n.conns))], k) :
           n \in {InvokeAll(S, chans, k, <<>>)}})

\* selectChan(opts) once the cases are shuffled: the tryInvoke loop, default, the promise
SelectReady(S, chans, opts, rand) ==
    The({IF ready.status = "thrown" THEN Thrown(ready.s, ready.r)
         ELSE IF ready.status = "returned"
         THEN Returned(ready.s, [t |-> "case", case |-> ready.r])
         ELSE IF opts.default THEN Returned(ready.s, [t |-> "null"])
         ELSE SelectPark(ready.s, chans, opts, Len(ready.s.calls) + 1) :
           ready \in {TryAll(S, chans, opts.silent, rand)}})

\* selectChan(opts) with the cases chans (nulls filtered out)
SelectCases(S, chans, opts, rs, rand) ==
    IF Len(chans) = 0
    THEN IF opts.default THEN Returned(S, [t |-> "null"])
         ELSE IF opts.signal # "none"
         THEN Promise([S EXCEPT !.calls = Append(@, NewCall("selectEmpty", NoChan, opts, Null, <<>>))],
                      Len(S.calls) + 1)
         ELSE Promise(S, neverPromise)
    ELSE SelectReady(ResetAll(S, chans), shuffle(chans, Len(chans), rs), opts, rand)

\* a selectChan that looks at the signal only after it has tried the cases: C12
\* does not hold of it
selectChanAbortLast(S, opts, rs, rand) ==
    IF opts.signal = "aborted"
    THEN The({IF opts.silent THEN Returned(r.s, [t |-> "aborted", reason |-> "abort"])
              ELSE Thrown(r.s, "abort") :
                r \in {SelectCases(S, FilterCases(opts.chans),
                                   [opts EXCEPT !.signal = "none", !.default = TRUE], rs, rand)}})
    ELSE SelectCases(S, FilterCases(opts.chans), opts, rs, rand)

\* selectChan(opts), opts is [chans, default, signal, silent]
selectChan(S, opts, rs, rand) ==
    IF opts.signal = "aborted"
    THEN IF opts.silent
         THEN Returned(S, [t |-> "aborted", reason |-> "abort"])
         ELSE Thrown(S, "abort")
    ELSE SelectCases(S, FilterCases(opts.chans), opts, rs, rand)

\* selectChan: onAbort after cleanup
SelectAborted(S, k) ==
    IF S.calls[k].silent
    THEN Resolve(S, k, [t |-> "aborted", reason |-> "abort"])
    ELSE Reject(S, k, "abort")

\* an onAbort that settles the promise and leaves the cases parked: C17 does not
\* hold of it
SelectOnAbortStaysParked(S, k) == SelectAborted(S, k)

\* selectChan: onAbort of a select that parked its cases
SelectOnAbort(S, k) == SelectAborted(SelectCleanup(S, k, TRUE), k)

\* a listener that rejects whatever silent is: C28 does not hold of it
SelectEmptyOnAbortRejects(S, k) == Reject(S, k, "abort")

\* selectChan: the abort listener of a select without cases
SelectEmptyOnAbort(S, k) == SelectAborted(S, k)

\* the signal of call k aborts: its listener (registered once) runs
SignalAbort(S, k) ==
    LET S1 == [S EXCEPT !.calls[k].listening = FALSE, !.calls[k].signal = "aborted"]
    IN CASE S.calls[k].kind = "read" -> ChanReadOnAbort(S1, k)
         [] S.calls[k].kind = "write" -> ChanWriteOnAbort(S1, k)
         [] S.calls[k].kind = "select" -> SelectOnAbort(S1, k)
         [] OTHER -> SelectEmptyOnAbort(S1, k)

\* ---------------------------------------------------------------- the iterator
(***************************************************************************)
(* Chan[Symbol.asyncIterator]: the generator a `for await` loop drives.    *)
(* pc is "start" (next() will run the loop body), "awaiting" (suspended in *)
(* `await this.read()` on call), "yielded" (suspended in `yield`), "done"  *)
(* (returned after break) or "thrown" (the generator threw); results are   *)
(* the values yielded so far.                                              *)
(***************************************************************************)
NewIter == [pc |-> "start", call |-> Null, results |-> <<>>]

\* the loop body once `await this.read()` gave res
IterStep(it, res) ==
    IF res.closed = "true" THEN [it EXCEPT !.pc = "done", !.call = Null]
    ELSE IF res.ok THEN [it EXCEPT !.pc = "yielded", !.call = Null, !.results = Append(@, res.value)]
    ELSE [it EXCEPT !.pc = "thrown", !.call = Null]

\* next() on a generator suspended in `yield`: the statement after it, `throw reason`
IterAfterYield(it) == [it EXCEPT !.pc = "thrown"]

\* the generator runs `this.read()`; r is what Chan.read returned
IterRead(it, r) ==
    IF r.status = "promise" THEN [it EXCEPT !.pc = "awaiting", !.call = r.result.call]
    ELSE IF r.status = "thrown" THEN [it EXCEPT !.pc = "thrown"]
    ELSE IterStep(it, r.result)

\* the awaited promise settled with call record p
IterSettled(it, p) ==
    IF p.status = "rejected" THEN [it EXCEPT !.pc = "thrown", !.call = Null]
    ELSE IterStep(it, p.result)

\* ---------------------------------------------------------------- state
VARIABLES chan, ract, wact, rlist, wlist, cases, calls, completers, err, oks, got, dup, q, fifo,
          nvals, iter, lim

vars == <<chan, ract, wact, rlist, wlist, cases, calls, completers, err, oks, got, dup, q, fifo,
          nvals, iter, lim>>

\* the heap of the current state
Cur ==
    [chan |-> chan, ract |-> ract, wact |-> wact, rlist |-> rlist, wlist |-> wlist,
     cases |-> cases, calls |-> calls, completers |-> completers, err |-> err,
     oks |-> oks, got |-> got, dup |-> dup, q |-> q, fifo |-> fifo]

\* ---------------------------------------------------------------- reachability
(***************************************************************************)
(* What the program can still reach.  The pools and the free lists hold    *)
(* action objects; an action holds its callback, whose closure holds the   *)
(* call (for a case: the case object, and cleanup with its conns); a       *)
(* registered abort listener holds onAbort, whose closure holds the        *)
(* call's action or conns.  Nothing else refers to an action object or to  *)
(* the variables a call captured, so those no reference leads to are kept  *)
(* in one canonical form.  The promise of a call (status, result), its     *)
(* kind and its channel are what the caller sees and are always kept.      *)
(***************************************************************************)
Range(f) == {f[i] : i \in DOMAIN f}

PoolRefs(S) ==
    UNION {{[t |-> "r", a |-> a] : a \in Range(S.chan[c].r.actions.actions)} : c \in Chans}
    \cup UNION {{[t |-> "w", a |-> a] : a \in Range(S.chan[c].w.actions.actions)} : c \in Chans}
    \cup {[t |-> "r", a |-> a] : a \in Range(S.rlist.items)}
    \cup {[t |-> "w", a |-> a] : a \in Range(S.wlist.items)}

CallbackOf(S, ref) == IF ref.t = "r" THEN S.ract[ref.a].callback ELSE S.wact[ref.a].callback

CallRefs(S, k) ==
    CASE S.calls[k].kind = "read" -> {[t |-> "r", a |-> S.calls[k].action]}
      [] S.calls[k].kind = "write" -> {[t |-> "w", a |-> S.calls[k].action]}
      [] OTHER -> Range(S.calls[k].conns)

RECURSIVE Reach(_, _, _)
Reach(S, A, K) ==
    The({The({IF A2 = A /\ K2 = K THEN [A |-> A, K |-> K] ELSE Reach(S, A2, K2) :
                A2 \in {A \cup UNION {CallRefs(S, k) : k \in K2}}}) :
           K2 \in {K \cup {CallbackOf(S, ref).call :
                               ref \in {x \in A : CallbackOf(S, x).t # "none"}}}})

CasesOf(S, A) ==
    {CallbackOf(S, ref).case : ref \in {x \in A : CallbackOf(S, x).t \in {"rcase", "wcase"}}}
    \cup {S.calls[k].result.case : k \in {x \in DOMAIN S.calls : S.calls[x].result.t = "case"}}

Reachable(S) ==
    The({[A |-> R.A, K |-> R.K, C |-> CasesOf(S, R.A)] :
           R \in {Reach(S, PoolRefs(S), {k \in DOMAIN S.calls : S.calls[k].listening})}})

Forget(S, R) ==
    [S EXCEPT
       !.ract = [a \in DOMAIN S.ract |->
                   IF [t |-> "r", a |-> a] \in R.A THEN S.ract[a]
                   ELSE [reader |-> NoChan, callback |-> NoCallback]],
       !.wact = [a \in DOMAIN S.wact |->
                   IF [t |-> "w", a |-> a] \in R.A THEN S.wact[a]
                   ELSE [writer |-> NoChan, value |-> Null, callback |-> NoCallback]],
       !.cases = [i \in DOMAIN S.cases |->
                   IF i \in R.C THEN S.cases[i]
                   ELSE [kind |-> "none", ch |-> NoChan, val |-> Null, value_ |-> NoValue]],
       !.calls = [k \in DOMAIN S.calls |->
                   IF k \in R.K THEN S.calls[k]
                   ELSE [S.calls[k] EXCEPT !.silent = FALSE, !.signal = "none",
                                           !.action = Null, !.conns = <<>>]]]

Collect(S) == Forget(S, Reachable(S))

\* the next state holds heap S
Becomes(S) ==
    \E T \in {IF S = Cur THEN S ELSE Collect(S)} :
        /\ chan' = T.chan /\ ract' = T.ract /\ wact' = T.wact
        /\ rlist' = T.rlist /\ wlist' = T.wlist
        /\ cases' = T.cases /\ calls' = T.calls /\ completers' = T.completers
        /\ err' = T.err
        /\ oks' = T.oks /\ got' = T.got /\ dup' = T.dup /\ q' = T.q /\ fifo' = T.fifo

Opts == [signal : {"none", "live", "aborted"}, silent : BOOLEAN]

\* the values Math.random() can take when it picks among n parked actions:
\* enough of them to reach every index
Randoms(n) == {[num |-> i, den |-> Max(n, 1)] : i \in 0..(Max(n, 1) - 1)}

ReadersOf(S, c) == ActionsLength(S.chan[c].r.actions)
WritersOf(S, c) == ActionsLength(S.chan[c].w.actions)

\* the largest pool of heap S
PoolMax(S) ==
    Max(Max(ReadersOf(S, "c1"), WritersOf(S, "c1")), Max(ReadersOf(S, "c2"), WritersOf(S, "c2")))

\* the values Math.random() can take in the n steps of shuffle: step 1 swaps
\* element 0 with itself whatever the value is
ShuffleRandoms(n) == {rs \in [1..n -> 0..(n - 1)] : n > 0 => rs[1] = 0}

\* new Chan(buf) for every channel the callers use (the others stay unused,
\* built with the default buf = 0); nothing else exists yet.  L bounds what the
\* callers do: the largest buf, the values they write, the calls that may park.
InitOn(CS, L) ==
    /\ lim = L
    /\ chan \in [Chans -> {RW(buf) : buf \in (-1)..L.cap}]
    /\ \A c \in Chans \ CS : chan[c] = RW(0)
    /\ ract = <<>> /\ wact = <<>>
    /\ rlist = NoFreeList /\ wlist = NoFreeList
    /\ cases = <<>> /\ calls = <<>> /\ completers = <<>>
    /\ err = "none"
    /\ oks = [c \in Chans |-> {}] /\ got = [c \in Chans |-> {}] /\ dup = FALSE
    /\ q = [c \in Chans |-> <<>>] /\ fifo = TRUE
    /\ nvals = 0
    /\ iter = NewIter

\* a call may park only while fewer than lim.calls calls have parked
MayPark(r) == r.status = "promise" => Len(calls) < lim.calls

\* the caller takes a new value nvals + 1 for a write; a value that the channel
\* did not take (the write failed without parking) is offered again by the next write
Taken(r) == r.status = "promise" \/ (r.status = "returned" /\ r.result.ok)

TryRead(c) ==
    \E opts \in Opts, rand \in Randoms(WritersOf(Cur, c)) :
        \E r \in {ChanTryRead(Cur, c, opts, rand)} :
           Becomes(r.s) /\ UNCHANGED <<nvals, iter, lim>>

Read(c) ==
    \E opts \in Opts, rand \in Randoms(WritersOf(Cur, c)) :
        \E r \in {ChanRead(Cur, c, opts, rand)} :
           MayPark(r) /\ Becomes(r.s) /\ UNCHANGED <<nvals, iter, lim>>

TryWrite(c) ==
    /\ nvals < lim.vals
    /\ \E opts \in Opts, rand \in Randoms(ReadersOf(Cur, c)) :
        \E r \in {ChanTryWrite(Cur, c, nvals + 1, opts, rand)} :
           /\ Becomes(r.s)
           /\ nvals' = IF Taken(r) THEN nvals + 1 ELSE nvals
           /\ UNCHANGED <<iter, lim>>

Write(c) ==
    /\ nvals < lim.vals
    /\ \E opts \in Opts, rand \in Randoms(ReadersOf(Cur, c)) :
        \E r \in {ChanWrite(Cur, c, nvals + 1, opts, rand)} :
           /\ MayPark(r) /\ Becomes(r.s)
           /\ nvals' = IF Taken(r) THEN nvals + 1 ELSE nvals
           /\ UNCHANGED <<iter, lim>>

Close(c) ==
    Becomes(ChanClose(Cur, c).s) /\ UNCHANGED <<nvals, iter, lim>>

\* the tasks suspended on a promise that wait() of channel c returned
Awaiting(S, c) ==
    {i \in DOMAIN S.completers : S.completers[i].ch = c /\ S.completers[i].awaiting > 0}

\* the number of tasks that have awaited a promise of wait()
RECURSIVE Waits(_)
Waits(cs) ==
    IF cs = <<>> THEN 0 ELSE Head(cs).awaiting + Head(cs).resumed + Waits(Tail(cs))

\* `await ch.wait()`: a task that is given null goes on, a task that is given the
\* promise is suspended on it
Wait(c) ==
    \E r \in {ChanWait(Cur, c)} :
        /\ r.r # Null => Waits(completers) < MaxWaits
        /\ Becomes(IF r.r = Null THEN r.s ELSE CompleterAwait(r.s, r.r))
        /\ UNCHANGED <<nvals, iter, lim>>

\* a task suspended in `await ch.wait()` resumes: its promise is resolved
WaitResume ==
    \E i \in DOMAIN completers :
        /\ completers[i].status = "resolved" /\ completers[i].awaiting > 0
        /\ Becomes(CompleterResume(Cur, i))
        /\ UNCHANGED <<nvals, iter, lim>>

\* the signal given to parked call k aborts
Abort(k) ==
    /\ k \in 1..Len(calls)
    /\ calls[k].listening
    /\ Becomes(SignalAbort(Cur, k))
    /\ UNCHANGED <<nvals, iter, lim>>

\* the case lists a caller may pass: each entry is a read case or a write case, and
\* the first may be null
CaseShapes(CS) == {[kind |-> "null"]} \cup [kind : {"read", "write"}, ch : CS]
CaseLists(CS) ==
    {l \in UNION {[1..n -> CaseShapes(CS)] : n \in 0..MaxCases} :
        \A i \in DOMAIN l : l[i].kind = "null" => i = 1}

\* the options a caller may pass next to the cases.  An aborted signal makes
\* selectChan return before it looks at anything else, and with default: true the
\* signal is never listened to: one representative of each is enough.
SelectOpts(shapes) ==
    {o \in [signal : {"none", "live", "aborted"}, silent : BOOLEAN, default : BOOLEAN] :
        /\ o.signal = "aborted" => shapes = <<>> /\ ~o.default
        /\ o.default => o.signal # "live"}

\* the case objects the caller creates for a list of shapes, the write cases taking
\* values v+1, v+2, ...: [cases, chans, v]
RECURSIVE MakeCases(_, _, _, _)
MakeCases(shapes, cs, chans, v) ==
    IF shapes = <<>> THEN [cases |-> cs, chans |-> chans, v |-> v]
    ELSE CASE Head(shapes).kind = "null" -> MakeCases(Tail(shapes), cs, Append(chans, Null), v)
           [] Head(shapes).kind = "read" ->
                MakeCases(Tail(shapes), Append(cs, NewReadCase(Head(shapes).ch)),
                          Append(chans, Len(cs) + 1), v)
           [] OTHER ->
                MakeCases(Tail(shapes), Append(cs, NewWriteCase(Head(shapes).ch, v + 1)),
                          Append(chans, Len(cs) + 1), v + 1)

SelectParked(r) == r.status = "promise" /\ r.result.call # neverPromise

SelectWrote(r) ==
    r.status = "returned" /\ r.result.t = "case" /\ r.s.cases[r.result.case].kind = "write"

Select(CS) ==
    \E shapes \in CaseLists(CS), rand \in Randoms(PoolMax(Cur)) :
      \E opts \in SelectOpts(shapes) :
        \E m \in {MakeCases(shapes, cases, <<>>, nvals)} :
           /\ m.v <= lim.vals
           /\ \E rs \in ShuffleRandoms(Len(FilterCases(m.chans))) :
                \E r \in {selectChan([Cur EXCEPT !.cases = m.cases],
                                    [chans |-> m.chans, default |-> opts.default,
                                     signal |-> opts.signal, silent |-> opts.silent], rs, rand)} :
                   /\ MayPark(r)
                   \* the case objects of a call that parked stay referenced by its
                   \* parked actions; otherwise only the caller holds the new ones
                   /\ Becomes([r.s EXCEPT !.cases = IF SelectParked(r) THEN r.s.cases
                                                   ELSE SubSeq(r.s.cases, 1, Len(cases))])
                   /\ nvals' = IF SelectParked(r) \/ SelectWrote(r) THEN m.v ELSE nvals
                   /\ UNCHANGED <<iter, lim>>

\* the `for await` loop calls next() of the generator
IterNext(c) ==
    \/ /\ iter.pc = "yielded"
       /\ iter' = IterAfterYield(iter)
       /\ UNCHANGED <<chan, ract, wact, rlist, wlist, cases, calls, completers, err, oks, got, dup,
                      q, fifo, nvals, lim>>
    \/ /\ iter.pc = "start"
       /\ \E rand \in Randoms(WritersOf(Cur, c)) :
            \E r \in {ChanRead(Cur, c, [signal |-> "none", silent |-> FALSE], rand)} :
               /\ MayPark(r) /\ Becomes(r.s)
               /\ iter' = IterRead(iter, r)
               /\ UNCHANGED <<nvals, lim>>

\* the promise the generator awaits has settled: the generator goes on
IterResume ==
    /\ iter.pc = "awaiting"
    /\ calls[iter.call].status # "pending"
    /\ iter' = IterSettled(iter, calls[iter.call])
    /\ UNCHANGED <<chan, ract, wact, rlist, wlist, cases, calls, completers, err, oks, got, dup,
                   q, fifo, nvals, lim>>

\* read, write and close with their try forms
Plain(CS) ==
    \/ \E c \in CS : TryRead(c)
    \/ \E c \in CS : Read(c)
    \/ \E c \in CS : TryWrite(c)
    \/ \E c \in CS : Write(c)
    \/ \E c \in CS : Close(c)
    \/ \E k \in 1..lim.calls : Abort(k)

\* callers of read, write and close on one channel with a buffer of up to MaxCap
Init == InitOn({"c1"}, [cap |-> MaxCap, vals |-> MaxVals, calls |-> MaxCalls])
Next == Plain({"c1"})
Spec == Init /\ [][Next]_vars

\* callers that also use selectChan, on one channel
InitSel == InitOn({"c1"}, [cap |-> SelCap, vals |-> SelVals, calls |-> SelCalls])
NextSel == Plain({"c1"}) \/ Select({"c1"})
SpecSel == InitSel /\ [][NextSel]_vars

\* callers that use selectChan on two channels
InitTwo == InitOn(Chans, [cap |-> TwoCap, vals |-> TwoVals, calls |-> TwoCalls])
NextTwo == Plain(Chans) \/ Select(Chans)
SpecTwo == InitTwo /\ [][NextTwo]_vars

\* writers and a `for await` loop on one channel
InitIter == InitOn({"c1"}, [cap |-> IterCap, vals |-> IterVals, calls |-> IterCalls])
NextIter ==
    \/ TryWrite("c1")
    \/ Write("c1")
    \/ Close("c1")
    \/ IterNext("c1")
    \/ IterResume
SpecIter == InitIter /\ [][NextIter]_vars

\* callers of read, write, close and wait on one channel
InitClose == InitOn({"c1"}, [cap |-> MaxCap, vals |-> MaxVals, calls |-> MaxCalls])
NextClose == Plain({"c1"}) \/ Wait("c1") \/ WaitResume
SpecClose == InitClose /\ [][NextClose]_vars

\* the same callers; a task whose promise is resolved is resumed by the job queue
SpecCloseFair == SpecClose /\ WF_vars(WaitResume)

\* ---------------------------------------------------------------- properties
\* the calls that have an action parked in a pool of channel c
ParkedCalls(c) ==
    {CallbackOf(Cur, ref).call :
        ref \in {x \in {[t |-> "r", a |-> a] : a \in Range(chan[c].r.actions.actions)}
                        \cup {[t |-> "w", a |-> a] : a \in Range(chan[c].w.actions.actions)} :
                    CallbackOf(Cur, x).t # "none"}}

\* the values in the buffer of channel c, oldest first
Buffered(c) == IF HasList(Cur, c) THEN RingContents(chan[c].list) ELSE <<>>

\* C1: a close() that closes channel c completes every read, write and selectChan
\* call that had an action parked on c; none of them is still pending when it returns
C1_CloseNotifiesAll ==
    [][\A c \in Chans :
          (~chan[c].isClosed /\ chan'[c].isClosed) =>
              \A k \in ParkedCalls(c) : calls'[k].status # "pending"]_vars

\* C5: once channel c is closed, no write on it reports ok: the set of values whose
\* write reported ok does not grow
C5_NoWriteAfterClose ==
    [][\A c \in Chans : chan[c].isClosed => oks'[c] = oks[c]]_vars

\* C9: a silent selectChan whose only case is a write case on a closed channel returns
\* at once with that case, filled with {ok: false, error: true, reason: closed}
C9_SilentWriteCaseOnClosed ==
    \A c \in {"c1"} :
        chan[c].isClosed =>
            \A r \in {selectChan([Cur EXCEPT !.cases = Append(cases, NewWriteCase(c, nvals + 1))],
                                 [chans |-> <<Len(cases) + 1>>, default |-> FALSE,
                                  signal |-> "none", silent |-> TRUE],
                                 <<0>>, [num |-> 0, den |-> 1])} :
                /\ r.status = "returned"
                /\ r.result = [t |-> "case", case |-> Len(cases) + 1]
                /\ r.s.cases[Len(cases) + 1].value_ = WriteValue(FALSE, TRUE, "closed")

\* C10: no read outcome, of a call or stored in a read case, has both closed = true
\* and ok = true
C10_ClosedExcludesOk ==
    /\ \A k \in DOMAIN calls :
          calls[k].result.t = "read" => ~(calls[k].result.closed = "true" /\ calls[k].result.ok)
    /\ \A i \in DOMAIN cases :
          cases[i].value_.t = "read" => ~(cases[i].value_.closed = "true" /\ cases[i].value_.ok)

C3_BufferedFifo ==
    /\ fifo
    /\ \A c \in Chans : HasList(Cur, c) => Buffered(c) = q[c]

\* the buffer of capacity 2 is full and wrapped around (its oldest value is in the
\* last slot), the newest value being the one a parked write() had, moved into the
\* slot a read vacated
C3_Witness ==
    /\ HasList(Cur, "c1")
    /\ RingCapacity(chan["c1"].list) = 2
    /\ chan["c1"].list.offset_ = 1 /\ chan["c1"].list.size_ = 2
    /\ got["c1"] # {}
    /\ \E k \in DOMAIN calls :
          /\ calls[k].kind = "write" /\ calls[k].status = "resolved" /\ calls[k].result.ok
    /\ fifo

C7_DrainAfterClose ==
    \A c \in Chans :
        (chan[c].isClosed /\ RWLength(Cur, c) > 0) =>
            /\ Buffered(c) = q[c]
            /\ \A signal \in {"none", "live"}, silent \in BOOLEAN, rand \in Randoms(WritersOf(Cur, c)) :
                  /\ ChanTryRead(Cur, c, [signal |-> signal, silent |-> silent], rand).result
                        = ReadValue("false", TRUE, Head(q[c]), "none")
                  /\ ChanRead(Cur, c, [signal |-> signal, silent |-> silent], rand).result
                        = ReadValue("false", TRUE, Head(q[c]), "none")

\* channel c1 is closed, one value was read and two are still in its buffer
C7_Witness ==
    /\ chan["c1"].isClosed
    /\ Len(Buffered("c1")) = 2
    /\ got["c1"] # {}
    /\ ChanTryRead(Cur, "c1", [signal |-> "none", silent |-> FALSE],
                   [num |-> 0, den |-> 1]).result.value = Head(q["c1"])

\* C8: the generator of `for await (const v of ch)` never throws, and when it ends it
\* has yielded every value read from the channel
C8_IterationEndsCleanly ==
    /\ iter.pc # "thrown"
    /\ iter.pc = "done" => Range(iter.results) = got["c1"]

\* the actions parked in a pool whose callback belongs to call k
ParkedFor(k) ==
    {ref \in UNION {{[t |-> "r", a |-> a] : a \in Range(chan[c].r.actions.actions)}
                       \cup {[t |-> "w", a |-> a] : a \in Range(chan[c].w.actions.actions)} :
                    c \in Chans} :
        CallbackOf(Cur, ref).t # "none" /\ CallbackOf(Cur, ref).call = k}

ReadReady(c) == RWLength(Cur, c) > 0 \/ (~chan[c].isClosed /\ WritersOf(Cur, c) > 0)

\* a write to channel c would report ok now
WriteReady(c) ==
    ~chan[c].isClosed /\ (ReadersOf(Cur, c) > 0 \/ RWLength(Cur, c) < RWCapacity(Cur, c))

\* C12: selectChan called with a signal that is already aborted returns {reason}
\* (silent) or throws the reason, whatever cases it is given and whether they are
\* ready or not, and leaves every channel, pool, case and call as it was
C12_AbortedSelectFailsFast ==
    \A shapes \in CaseLists(Chans), silent \in BOOLEAN, default \in BOOLEAN :
        \A m \in {MakeCases(shapes, cases, <<>>, nvals)} :
            \A rs \in ShuffleRandoms(Len(FilterCases(m.chans))), rand \in Randoms(PoolMax(Cur)) :
                \A r \in {selectChan([Cur EXCEPT !.cases = m.cases],
                                     [chans |-> m.chans, default |-> default,
                                      signal |-> "aborted", silent |-> silent], rs, rand)} :
                    /\ r.s = [Cur EXCEPT !.cases = m.cases]
                    /\ silent => /\ r.status = "returned"
                                 /\ r.result = [t |-> "aborted", reason |-> "abort"]
                    /\ ~silent => /\ r.status = "thrown"
                                  /\ r.result.reason = "abort"

\* a read case on c1 and a write case on c2 are both ready, a reader is parked, and
\* the silent selectChan with an aborted signal returns the reason
C12_Witness ==
    /\ ReadReady("c1") /\ WriteReady("c2")
    /\ \E c \in Chans : ReadersOf(Cur, c) > 0 \/ WritersOf(Cur, c) > 0
    /\ selectChan([Cur EXCEPT !.cases = cases \o <<NewReadCase("c1"), NewWriteCase("c2", nvals + 1)>>],
                  [chans |-> <<Len(cases) + 1, Len(cases) + 2>>, default |-> FALSE,
                   signal |-> "aborted", silent |-> TRUE],
                  <<0, 0>>, [num |-> 0, den |-> 1]).result = [t |-> "aborted", reason |-> "abort"]

\* a case of the given shape can complete at once: a read case when a value can be
\* read or the channel is closed (end-of-stream), a write case when the value can be
\* written or the channel is closed (the closed error)
CanComplete(shape) ==
    CASE shape.kind = "read" -> ReadReady(shape.ch) \/ chan[shape.ch].isClosed
      [] shape.kind = "write" -> WriteReady(shape.ch) \/ chan[shape.ch].isClosed
      [] OTHER -> FALSE

\* C13: selectChan with default: true never returns a promise; it returns null
\* exactly when none of its cases can complete at once, and then leaves every
\* channel (buffer, pools) as it was
C13_DefaultNeverParks ==
    \A shapes \in CaseLists(Chans), silent \in BOOLEAN, signal \in {"none", "live"} :
        \A m \in {MakeCases(shapes, cases, <<>>, nvals)} :
            \A rs \in ShuffleRandoms(Len(FilterCases(m.chans))), rand \in Randoms(PoolMax(Cur)) :
                \A r \in {selectChan([Cur EXCEPT !.cases = m.cases],
                                     [chans |-> m.chans, default |-> TRUE,
                                      signal |-> signal, silent |-> silent], rs, rand)} :
                    /\ r.status # "promise"
                    /\ (r.status = "returned" /\ r.result = [t |-> "null"])
                          <=> ~\E i \in DOMAIN shapes : CanComplete(shapes[i])
                    /\ (r.status = "returned" /\ r.result = [t |-> "null"])
                          => r.s = [Cur EXCEPT !.cases = m.cases]

\* channel c is open, has a buffer of one slot and no parked reader or writer
QuietOne(c) ==
    /\ ~chan[c].isClosed /\ RWCapacity(Cur, c) = 1
    /\ ReadersOf(Cur, c) = 0 /\ WritersOf(Cur, c) = 0

\* C14: selectChan over a read case and a write case of the same open channel of
\* capacity 1 without parked peers, in either order and under every shuffle.  With
\* the buffer empty it returns the write case, the value is in the buffer and nothing
\* was read; with the buffer full it returns the read case, whose outcome carries
\* the buffered value, the buffer is empty and nothing was written
C14_MixedCasesOnOneSlot ==
    \A c \in Chans :
        QuietOne(c) =>
            \A rd \in {Len(cases) + 1, Len(cases) + 2}, default \in BOOLEAN, silent \in BOOLEAN,
               signal \in {"none", "live"}, rs \in ShuffleRandoms(2) :
                \A wr \in {2 * Len(cases) + 3 - rd} :
                    \A S0 \in {[Cur EXCEPT !.cases =
                                   IF rd < wr
                                   THEN cases \o <<NewReadCase(c), NewWriteCase(c, nvals + 1)>>
                                   ELSE cases \o <<NewWriteCase(c, nvals + 1), NewReadCase(c)>>]} :
                        \A r \in {selectChan(S0, [chans |-> <<Len(cases) + 1, Len(cases) + 2>>,
                                                  default |-> default, signal |-> signal,
                                                  silent |-> silent],
                                             rs, [num |-> 0, den |-> 1])} :
                            /\ r.status = "returned"
                            /\ RWLength(Cur, c) = 0 =>
                                  /\ r.result = [t |-> "case", case |-> wr]
                                  /\ RWLength(r.s, c) = 1
                                  /\ RingContents(r.s.chan[c].list) = <<nvals + 1>>
                                  /\ r.s = [S0 EXCEPT !.chan[c].list = r.s.chan[c].list,
                                                      !.q[c] = <<nvals + 1>>,
                                                      !.oks[c] = @ \cup {nvals + 1},
                                                      !.cases[wr].value_ = WriteValue(TRUE, FALSE, "none")]
                            /\ RWLength(Cur, c) = 1 =>
                                  /\ r.result = [t |-> "case", case |-> rd]
                                  /\ RWLength(r.s, c) = 0
                                  /\ r.s = [S0 EXCEPT !.chan[c].list = r.s.chan[c].list,
                                                      !.q[c] = <<>>,
                                                      !.got[c] = @ \cup {Head(q[c])},
                                                      !.cases[rd].value_ =
                                                          ReadValue("false", TRUE, Head(q[c]), "none")]

\* the channel of capacity 1 is open and full with no parked peer, values have gone
\* through it, and selectChan over its write case and its read case returns the
\* read case
C14_Witness ==
    /\ QuietOne("c1") /\ RWLength(Cur, "c1") = 1 /\ got["c1"] # {}
    /\ selectChan([Cur EXCEPT !.cases = cases \o <<NewWriteCase("c1", nvals + 1), NewReadCase("c1")>>],
                  [chans |-> <<Len(cases) + 1, Len(cases) + 2>>, default |-> TRUE,
                   signal |-> "none", silent |-> FALSE],
                  <<0, 0>>, [num |-> 0, den |-> 1]).result = [t |-> "case", case |-> Len(cases) + 2]

\* a case of the given shape is ready: its tryInvoke would return true.  A read case
\* is ready when a value can be read or the channel is closed, a write case when
\* the channel can take the value
Ready(shape) ==
    CASE shape.kind = "read" -> ReadReady(shape.ch) \/ chan[shape.ch].isClosed
      [] shape.kind = "write" -> WriteReady(shape.ch)
      [] OTHER -> FALSE

\* the lists of two cases whose write cases are on open channels
OpenPairs ==
    {l \in [1..2 -> [kind : {"read", "write"}, ch : Chans]] :
        \A i \in 1..2 : l[i].kind = "write" => ~chan[l[i].ch].isClosed}

\* the outcomes of selectChan over the cases m under every shuffle
SelectOutcomes(m, default, silent) ==
    {selectChan([Cur EXCEPT !.cases = m.cases],
                [chans |-> m.chans, default |-> default, signal |-> "none", silent |-> silent],
                rs, rand) :
        rs \in ShuffleRandoms(2), rand \in Randoms(PoolMax(Cur))}

AbortableReads == {k \in DOMAIN calls : calls[k].kind = "read" /\ calls[k].status = "pending"
                                         /\ calls[k].listening}

\* the actions in the reader pool of channel c in heap S
ReaderPool(S, c) == Range(S.chan[c].r.actions.actions)

AbortableSelects == {k \in DOMAIN calls : calls[k].kind = "select" /\ calls[k].status = "pending"
                                           /\ calls[k].listening}

\* every action parked in a pool of heap S
PoolOf(S) ==
    UNION {{[t |-> "r", a |-> a] : a \in Range(S.chan[c].r.actions.actions)}
             \cup {[t |-> "w", a |-> a] : a \in Range(S.chan[c].w.actions.actions)} : c \in Chans}

\* the case objects of the parked selectChan call k
CasesOfCall(k) ==
    {CallbackOf(Cur, conn).case :
        conn \in {x \in Range(calls[k].conns) : CallbackOf(Cur, x).t \in {"rcase", "wcase"}}}

C18_CloseOnce ==
    \A c \in Chans :
        \A r \in {ChanClose(Cur, c)} :
            IF chan[c].isClosed
            THEN r.r = FALSE /\ r.s = Cur
            ELSE /\ r.r = TRUE
                 /\ r.s.chan[c].isClosed
                 /\ ChanClose(r.s, c) = [s |-> r.s, r |-> FALSE]

\* the channel is closed with values left in its buffer, others were read, and
\* close() now returns false
C18_Witness ==
    /\ chan["c1"].isClosed
    /\ Len(Buffered("c1")) > 0 /\ got["c1"] # {}
    /\ ChanClose(Cur, "c1").r = FALSE

\* C19: the closed flag is monotone: a channel that is closed is closed after every
\* step
C19_ClosedMonotone ==
    [][\A c \in Chans : chan[c].isClosed => chan'[c].isClosed]_vars

\* operations went on after the close: a write case of a selectChan made after it
\* is parked on the closed channel, and values written before it were read
C19_Witness ==
    /\ chan["c1"].isClosed
    /\ WritersOf(Cur, "c1") > 0
    /\ got["c1"] # {}

\* C20: the length of a channel is at most its capacity, and 0 without a buffer;
\* the ring holds size_ values in the slots from offset_ on and nothing elsewhere
C20_LengthWithinCapacity ==
    \A c \in Chans :
        /\ 0 <= RWLength(Cur, c) /\ RWLength(Cur, c) <= RWCapacity(Cur, c)
        /\ ~HasList(Cur, c) => RWLength(Cur, c) = 0 /\ RWCapacity(Cur, c) = 0 /\ q[c] = <<>>
        /\ HasList(Cur, c) =>
              /\ chan[c].list.offset_ \in 0..(Len(chan[c].list.arrs) - 1)
              /\ Cardinality({i \in DOMAIN chan[c].list.arrs : chan[c].list.arrs[i] # Null})
                    = chan[c].list.size_
              /\ Len(q[c]) = chan[c].list.size_

\* the buffer of capacity 2 is full and a write() that found it full is parked
C20_Witness ==
    /\ RWCapacity(Cur, "c1") = 2 /\ RWLength(Cur, "c1") = 2
    /\ WritersOf(Cur, "c1") > 0
    /\ \E k \in DOMAIN calls : calls[k].kind = "write" /\ calls[k].status = "pending"

\* C21: between two public operations, a channel with a parked writer has a full
\* buffer or no buffer at all
C21_WritersWaitOnFull ==
    \A c \in Chans :
        WritersOf(Cur, c) > 0 => (RWCapacity(Cur, c) = 0 \/ RWLength(Cur, c) = RWCapacity(Cur, c))

\* C22: between two public operations, a channel with a parked reader has an empty
\* buffer
C22_ReadersWaitOnEmpty ==
    \A c \in Chans : ReadersOf(Cur, c) > 0 => RWLength(Cur, c) = 0

\* a reader is parked on the channel of capacity 1 after values went through its
\* buffer, which is empty again
C22_Witness ==
    /\ ReadersOf(Cur, "c1") > 0
    /\ RWCapacity(Cur, "c1") = 1 /\ RWLength(Cur, "c1") = 0
    /\ got["c1"] # {}

\* the actions in the writer pool of channel c in heap S
WriterPool(S, c) == Range(S.chan[c].w.actions.actions)

\* the values that n successive tryRead calls on channel c return, from heap S
RECURSIVE NextReads(_, _, _)
NextReads(S, c, n) ==
    IF n = 0 THEN <<>>
    ELSE The({<<r.result.value>> \o NextReads(r.s, c, n - 1) :
                r \in {ChanTryRead(S, c, [signal |-> "none", silent |-> TRUE], [num |-> 0, den |-> 1])}})

\* the outcome the callback cb of a parked writer has received in heap S: a write()
\* call is resolved with it, a write case holds it and its selectChan call is
\* resolved with the case
WokenWithOk(S, cb) ==
    CASE cb.t = "write" ->
           /\ S.calls[cb.call].status = "resolved"
           /\ S.calls[cb.call].result = WriteValue(TRUE, FALSE, "none")
      [] cb.t = "wcase" ->
           /\ S.cases[cb.case].value_ = WriteValue(TRUE, FALSE, "none")
           /\ S.calls[cb.call].status = "resolved"
           /\ S.calls[cb.call].result = [t |-> "case", case |-> cb.case]
      [] OTHER -> FALSE

\* C23: on a channel whose buffer is full while writers are parked, a read (tryRead
\* or read) returns the oldest buffered value and, in the same step, one parked
\* writer (any of them) leaves the pool with ok = true, its value being appended
\* behind the values that remain; the writers of other calls stay parked, the
\* length still equals the capacity, and the next reads return the remaining values
\* followed by that writer's value
C23_ReadRefillsFromWriter ==
    \A c \in Chans :
        (HasList(Cur, c) /\ RWLength(Cur, c) = RWCapacity(Cur, c) /\ WritersOf(Cur, c) > 0) =>
            /\ \A signal \in {"none", "live"}, silent \in BOOLEAN, rand \in Randoms(WritersOf(Cur, c)) :
                  \A r \in {ChanTryRead(Cur, c, [signal |-> signal, silent |-> silent], rand)} :
                      /\ r.status = "returned"
                      /\ r.result = ReadValue("false", TRUE, Head(Buffered(c)), "none")
                      /\ ChanRead(Cur, c, [signal |-> signal, silent |-> silent], rand) = r
                      /\ RWLength(r.s, c) = RWCapacity(Cur, c)
                      /\ \E a \in WriterPool(Cur, c) :
                            /\ a \notin WriterPool(r.s, c)
                            /\ RingContents(r.s.chan[c].list) = Tail(Buffered(c)) \o <<wact[a].value>>
                            /\ wact[a].value \notin oks[c]
                            /\ r.s.oks[c] = oks[c] \cup {wact[a].value}
                            /\ WokenWithOk(r.s, wact[a].callback)
                            /\ \A b \in WriterPool(Cur, c) :
                                  wact[b].callback.call # wact[a].callback.call => b \in WriterPool(r.s, c)
                            /\ NextReads(r.s, c, RWCapacity(Cur, c)) = Tail(Buffered(c)) \o <<wact[a].value>>
            /\ \A a \in WriterPool(Cur, c) :
                  \E rand \in Randoms(WritersOf(Cur, c)) :
                      a \notin WriterPool(ChanTryRead(Cur, c, [signal |-> "none", silent |-> FALSE], rand).s, c)

\* the buffer of capacity 2 is full, a write() is parked behind it, and a tryRead
\* returns the oldest value and leaves the buffer full with the writer's value last
C23_Witness ==
    /\ RWCapacity(Cur, "c1") = 2 /\ RWLength(Cur, "c1") = 2
    /\ WritersOf(Cur, "c1") > 0
    /\ \E k \in DOMAIN calls : calls[k].kind = "write" /\ calls[k].status = "pending"
    /\ \A r \in {ChanTryRead(Cur, "c1", [signal |-> "none", silent |-> FALSE], [num |-> 0, den |-> 1])} :
          /\ r.result.value = Head(q["c1"])
          /\ RWLength(r.s, "c1") = 2
          /\ WritersOf(r.s, "c1") = WritersOf(Cur, "c1") - 1

\* what C24 says of one state.  On a closed channel wait() returns null and changes
\* nothing.  On an open channel it returns a pending promise, a second call returns
\* the same promise and changes nothing, and close() then resolves that promise with
\* null.  Every promise wait() has returned for the channel is the one shared
\* promise of its close notifier while the channel is open, and is resolved with
\* null once the channel is closed
WaitShared ==
    \A c \in Chans :
        /\ chan[c].isClosed => ChanWait(Cur, c) = [s |-> Cur, r |-> Null]
        /\ ~chan[c].isClosed =>
              \A r \in {ChanWait(Cur, c)} :
                  /\ r.r # Null
                  /\ r.s.completers[r.r].status = "pending"
                  /\ chan[c].closed_ # Null => (r.s = Cur /\ r.r = chan[c].closed_)
                  /\ ChanWait(r.s, c) = r
                  /\ \A cl \in {ChanClose(r.s, c)} :
                        /\ cl.r = TRUE
                        /\ cl.s.completers[r.r].status = "resolved"
                        /\ cl.s.completers[r.r].value = "null"
        /\ \A i \in DOMAIN completers :
              completers[i].ch = c =>
                  IF chan[c].isClosed
                  THEN completers[i].status = "resolved" /\ completers[i].value = "null"
                  ELSE completers[i].status = "pending" /\ chan[c].closed_ = i

\* C24: wait() returns null on a closed channel; on an open one every call returns
\* the same shared promise, which the close() that closes the channel resolves with
\* null; and once the channel is closed every task suspended in `await ch.wait()`
\* resumes
C24_WaitResolvedByClose ==
    /\ []WaitShared
    /\ \A c \in Chans : chan[c].isClosed ~> (Awaiting(Cur, c) = {})

\* the channel was closed while two tasks awaited wait(): its promise is resolved,
\* one of the tasks has resumed, and wait() now returns null
C24_Witness ==
    /\ chan["c1"].isClosed
    /\ \E i \in DOMAIN completers :
          /\ completers[i].ch = "c1" /\ completers[i].status = "resolved"
          /\ completers[i].resumed = 1 /\ completers[i].awaiting = 1
    /\ ChanWait(Cur, "c1").r = Null

\* selectChan over the one case i, with default: true so that it returns at once
SelectOne(S, i) ==
    selectChan(S, [chans |-> <<i>>, default |-> TRUE, signal |-> "none", silent |-> TRUE],
               <<0>>, [num |-> 0, den |-> 1])

\* C25: when selectChan returns the case it was given for a read on channel c, a
\* readCase() called on c afterwards returns that same object, and likewise for
\* writeCase(v)
C25_CasesDenoteOneObject ==
    \A c \in Chans :
        /\ \A a \in {ChanReadCase(Cur, c)} :
              \A r \in {SelectOne(a.s, a.case)} :
                  r.result.t = "case" => ChanReadCase(r.s, c).case = r.result.case
        /\ \A a \in {ChanWriteCase(Cur, c, nvals + 1)} :
              \A r \in {SelectOne(a.s, a.case)} :
                  r.result.t = "case" => ChanWriteCase(r.s, c, nvals + 1).case = r.result.case

\* what C26 says of one state.  Two readCase() calls on a channel return two new,
\* distinct case objects, each without an outcome; when selectChan is given the
\* first and returns a case, it is that first object, which then holds the outcome
\* while the second still has none; likewise for two writeCase(v) calls with the
\* same v.  Whatever list of cases selectChan is given, a case it returns is one of
\* the objects of the list
FreshCases ==
    /\ \A c \in Chans :
          /\ \A a \in {ChanReadCase(Cur, c)} :
                \A b \in {ChanReadCase(a.s, c)} :
                    /\ a.case # b.case
                    /\ a.case \notin DOMAIN cases /\ b.case \notin DOMAIN cases
                    /\ b.s.cases[a.case] = NewReadCase(c) /\ b.s.cases[b.case] = NewReadCase(c)
                    /\ \A r \in {SelectOne(b.s, a.case)} :
                          r.result.t = "case" =>
                              /\ r.result.case = a.case
                              /\ r.s.cases[a.case].value_ # NoValue
                              /\ r.s.cases[b.case].value_ = NoValue
          /\ \A a \in {ChanWriteCase(Cur, c, nvals + 1)} :
                \A b \in {ChanWriteCase(a.s, c, nvals + 1)} :
                    /\ a.case # b.case
                    /\ a.case \notin DOMAIN cases /\ b.case \notin DOMAIN cases
                    /\ b.s.cases[a.case] = NewWriteCase(c, nvals + 1)
                    /\ b.s.cases[b.case] = NewWriteCase(c, nvals + 1)
                    /\ \A r \in {SelectOne(b.s, a.case)} :
                          r.result.t = "case" =>
                              /\ r.result.case = a.case
                              /\ r.s.cases[a.case].value_ # NoValue
                              /\ r.s.cases[b.case].value_ = NoValue
    /\ \A shapes \in CaseLists(Chans), default \in BOOLEAN, silent \in BOOLEAN :
          \A m \in {MakeCases(shapes, cases, <<>>, nvals)} :
              \A rs \in ShuffleRandoms(Len(FilterCases(m.chans))), rand \in Randoms(PoolMax(Cur)) :
                  \A r \in {selectChan([Cur EXCEPT !.cases = m.cases],
                                       [chans |-> m.chans, default |-> default,
                                        signal |-> "none", silent |-> silent], rs, rand)} :
                      (r.status = "returned" /\ r.result.t = "case") =>
                          r.result.case \in Range(FilterCases(m.chans))

WriteCasesOn(k, c) ==
    {wact[a].callback.case :
        a \in {x \in WriterPool(Cur, c) :
                  wact[x].callback.t = "wcase" /\ wact[x].callback.call = k}}

\* the selectChan calls that are pending with a write case parked on channel c
SelectsWritingOn(c) ==
    {k \in DOMAIN calls :
        calls[k].kind = "select" /\ calls[k].status = "pending" /\ WriteCasesOn(k, c) # {}}

\* C27: when close() closes a channel on which a pending selectChan call has parked a
\* write case, the call resolves with {reason: closed} if silent and rejects with
\* that error otherwise, never with a case, and a write case it parked on the
\* channel holds the outcome {ok: false, error: true, reason: closed}
C27_CloseFailsParkedWriteCase ==
    \A c \in Chans :
        ~chan[c].isClosed =>
            \A S2 \in {ChanClose(Cur, c).s} :
                \A k \in SelectsWritingOn(c) :
                    /\ IF calls[k].silent
                       THEN /\ S2.calls[k].status = "resolved"
                            /\ S2.calls[k].result = [t |-> "aborted", reason |-> "closed"]
                       ELSE /\ S2.calls[k].status = "rejected"
                            /\ S2.calls[k].result = [t |-> "error", reason |-> "closed"]
                    /\ \E i \in WriteCasesOn(k, c) :
                          S2.cases[i].value_ = WriteValue(FALSE, TRUE, "closed")

\* selectChan over the list chans, which holds no case
SelectNone(chans, default, signal, silent) ==
    selectChan(Cur, [chans |-> chans, default |-> default, signal |-> signal, silent |-> silent],
               <<>>, [num |-> 0, den |-> 1])

\* the selectChan calls without cases that wait for their signal
EmptySelects == {k \in DOMAIN calls : calls[k].kind = "selectEmpty" /\ calls[k].status = "pending"}

\* what C28 says of one state.  For a list that is empty or holds only nulls:
\* with default: true selectChan returns null and changes nothing; without default
\* and without a signal it returns the promise that never resolves and changes
\* nothing; without default and with a signal it returns a new pending promise and
\* changes nothing else, and the abort of the signal resolves that promise with
\* {reason} if silent and rejects it otherwise, the channels, pools, cases and other
\* calls staying as they were.  A pending call of this kind still has its listener
EmptySelectNow ==
    /\ \A chans \in {<<>>, <<Null>>, <<Null, Null>>}, silent \in BOOLEAN :
          /\ \A signal \in {"none", "live"} :
                SelectNone(chans, TRUE, signal, silent) = Returned(Cur, [t |-> "null"])
          /\ SelectNone(chans, FALSE, "none", silent) = Promise(Cur, neverPromise)
          /\ \A r \in {SelectNone(chans, FALSE, "live", silent)} :
                /\ r.status = "promise" /\ r.result.call = Len(calls) + 1
                /\ Len(r.s.calls) = Len(calls) + 1
                /\ r.s.calls[Len(calls) + 1].status = "pending"
                /\ [r.s EXCEPT !.calls = calls] = Cur
                /\ \A S2 \in {SignalAbort(r.s, Len(calls) + 1)} :
                      /\ [S2 EXCEPT !.calls = calls] = Cur
                      /\ SubSeq(S2.calls, 1, Len(calls)) = calls
                      /\ IF silent
                         THEN /\ S2.calls[Len(calls) + 1].status = "resolved"
                              /\ S2.calls[Len(calls) + 1].result = [t |-> "aborted", reason |-> "abort"]
                         ELSE /\ S2.calls[Len(calls) + 1].status = "rejected"
                              /\ S2.calls[Len(calls) + 1].result = [t |-> "error", reason |-> "abort"]
    /\ \A k \in EmptySelects : calls[k].listening

\* C28: selectChan whose list holds no case returns null at once with default: true;
\* with a signal and no default it stays pending through every operation until its
\* signal aborts, and that abort resolves it with {reason} (silent) or rejects it;
\* with neither it returns the promise that nothing resolves.  None of this changes
\* a channel
C28_EmptySelect ==
    /\ []EmptySelectNow
    /\ [][\A k \in EmptySelects :
             \/ calls'[k].status = "pending" /\ calls'[k].listening
             \/ /\ ~calls'[k].listening
                /\ chan' = chan
                /\ IF calls[k].silent
                   THEN /\ calls'[k].status = "resolved"
                        /\ calls'[k].result = [t |-> "aborted", reason |-> "abort"]
                   ELSE /\ calls'[k].status = "rejected"
                        /\ calls'[k].result = [t |-> "error", reason |-> "abort"]]_vars

\* a silent selectChan without cases waited while values went through a channel and
\* was resolved with the reason when its signal aborted
C28_Witness ==
    /\ \E k \in DOMAIN calls :
          /\ calls[k].kind = "selectEmpty" /\ calls[k].status = "resolved"
          /\ calls[k].result = [t |-> "aborted", reason |-> "abort"]
    /\ \E c \in Chans : got[c] # {}

\* the callback cb of a parked reader has received value v in heap S: a read() call
\* is resolved with it, a read case holds it and its selectChan call is resolved
\* with the case
HandedTo(S, cb, v) ==
    CASE cb.t = "read" ->
           /\ S.calls[cb.call].status = "resolved"
           /\ S.calls[cb.call].result = ReadValue("false", TRUE, v, "none")
      [] cb.t = "rcase" ->
           /\ S.cases[cb.case].value_ = ReadValue("false", TRUE, v, "none")
           /\ S.calls[cb.call].status = "resolved"
           /\ S.calls[cb.call].result = [t |-> "case", case |-> cb.case]
      [] OTHER -> FALSE

\* the parked readers of channel c that belong to the call of reader a
ReadersOfCall(c, a) ==
    {b \in ReaderPool(Cur, c) : ract[b].callback.call = ract[a].callback.call}

\* tryWrite(v) on an open channel c with parked readers reports ok, leaves the buffer
\* as it is, and hands v to one parked reader a, whose outcome is set by the time
\* tryWrite returns; v is the one value read and written in the step; each parked
\* reader is the one chosen for some value of Math.random().  The pool then holds
\* the readers it held, without a (alone = TRUE) or without the readers of the call
\* of a (alone = FALSE)
HandOff(alone) ==
    \A c \in Chans :
        (~chan[c].isClosed /\ ReadersOf(Cur, c) > 0) =>
            /\ \A signal \in {"none", "live"}, silent \in BOOLEAN, rand \in Randoms(ReadersOf(Cur, c)) :
                  \A w \in {ChanTryWrite(Cur, c, nvals + 1, [signal |-> signal, silent |-> silent], rand)} :
                      /\ w.status = "returned"
                      /\ w.result = WriteValue(TRUE, FALSE, "none")
                      /\ w.s.chan[c].list = chan[c].list
                      /\ w.s.got[c] = got[c] \cup {nvals + 1}
                      /\ w.s.oks[c] = oks[c] \cup {nvals + 1}
                      /\ \E a \in ReaderPool(Cur, c) :
                            /\ HandedTo(w.s, ract[a].callback, nvals + 1)
                            /\ ReaderPool(w.s, c) =
                                  ReaderPool(Cur, c) \ (IF alone THEN {a} ELSE ReadersOfCall(c, a))
            /\ \A a \in ReaderPool(Cur, c) :
                  \E rand \in Randoms(ReadersOf(Cur, c)) :
                      HandedTo(ChanTryWrite(Cur, c, nvals + 1, [signal |-> "none", silent |-> FALSE],
                                            rand).s,
                               ract[a].callback, nvals + 1)

AbortableWrites == {k \in DOMAIN calls : calls[k].kind = "write" /\ calls[k].status = "pending"
                                          /\ calls[k].listening}

\* the values that heap S still holds for delivery: those in a buffer and those of
\* the writer actions in a pool or in the free list
HeldValues(S) ==
    UNION {IF HasList(S, c) THEN Range(RingContents(S.chan[c].list)) ELSE {} : c \in Chans}
    \cup {S.wact[ref.a].value : ref \in {x \in PoolRefs(S) : x.t = "w"}}

C32_AbortedSignalTouchesNothing ==
    \A c \in Chans, silent \in BOOLEAN :
        /\ \A rand \in Randoms(WritersOf(Cur, c)) :
              /\ ChanTryRead(Cur, c, [signal |-> "aborted", silent |-> silent], rand)
                    = IF silent THEN Returned(Cur, ReadValue("null", FALSE, Null, "abort"))
                      ELSE Thrown(Cur, "abort")
              /\ ChanRead(Cur, c, [signal |-> "aborted", silent |-> silent], rand)
                    = IF silent THEN Returned(Cur, ReadValue("null", FALSE, Null, "abort"))
                      ELSE Thrown(Cur, "abort")
        /\ \A rand \in Randoms(ReadersOf(Cur, c)) :
              /\ ChanTryWrite(Cur, c, nvals + 1, [signal |-> "aborted", silent |-> silent], rand)
                    = IF silent THEN Returned(Cur, WriteValue(FALSE, TRUE, "abort"))
                      ELSE Thrown(Cur, "abort")
              /\ ChanWrite(Cur, c, nvals + 1, [signal |-> "aborted", silent |-> silent], rand)
                    = IF silent THEN Returned(Cur, WriteValue(FALSE, TRUE, "abort"))
                      ELSE Thrown(Cur, "abort")

\* the open channel of capacity 2 holds one value after others were read, so that a
\* read and a write could both complete, and a silent read and a silent write with
\* an aborted signal return the cancellation envelope
C32_Witness ==
    /\ ~chan["c1"].isClosed /\ RWCapacity(Cur, "c1") = 2 /\ RWLength(Cur, "c1") = 1
    /\ got["c1"] # {}
    /\ ChanRead(Cur, "c1", [signal |-> "aborted", silent |-> TRUE], [num |-> 0, den |-> 1]).result
          = ReadValue("null", FALSE, Null, "abort")
    /\ ChanWrite(Cur, "c1", nvals + 1, [signal |-> "aborted", silent |-> TRUE],
                 [num |-> 0, den |-> 1]).result = WriteValue(FALSE, TRUE, "abort")

\* the heaps in which the caller holds the case objects of a list of shapes and an
\* earlier selectChan over them (with default: true) has returned one of them, which
\* therefore holds an outcome: [s, chans]
FiredLists ==
    UNION {UNION {{[s |-> r.s, chans |-> m.chans] :
                      r \in {x \in {selectChan([Cur EXCEPT !.cases = m.cases],
                                               [chans |-> m.chans, default |-> TRUE,
                                                signal |-> "none", silent |-> TRUE],
                                               rs, [num |-> 0, den |-> 1]) :
                                       rs \in ShuffleRandoms(Len(FilterCases(m.chans)))} :
                               x.result.t = "case"}} :
                    m \in {MakeCases(shapes, cases, <<>>, nvals)}} :
             shapes \in CaseLists(Chans)}

SelectAgainOpts == [signal : {"none", "live", "aborted"}, silent : BOOLEAN, default : BOOLEAN]

\* selectChan r was given the cases L: apart from a case it returns, none of them
\* holds an outcome when it returns, throws or hands out its promise
OthersNull(r, L) ==
    \A i \in L :
        r.s.cases[i].value_ # NoValue =>
            r.status = "returned" /\ r.result = [t |-> "case", case |-> i]

\* the heaps one step of another party makes of the current one: a tryRead, a
\* tryWrite or a close() on a channel, or the abort of a signal
StepsOfOthers ==
    UNION {{ChanTryRead(Cur, c, [signal |-> "none", silent |-> TRUE], rand).s :
               rand \in Randoms(WritersOf(Cur, c))}
           \cup {ChanTryWrite(Cur, c, nvals + 1, [signal |-> "none", silent |-> TRUE], rand).s :
                    rand \in Randoms(ReadersOf(Cur, c))}
           \cup {ChanClose(Cur, c).s} : c \in Chans}
    \cup {SignalAbort(Cur, k) : k \in {x \in DOMAIN calls : calls[x].listening}}

PendingSelects == {k \in DOMAIN calls : calls[k].kind = "select" /\ calls[k].status = "pending"}

\* the step that settles a parked selectChan leaves an outcome in one of its cases
\* at most: the case it resolves with, or the write case whose error it reports
ParkedOthersNull ==
    \A k \in PendingSelects, S2 \in StepsOfOthers :
        S2.calls[k].status # "pending" =>
            /\ ~calls[k].listening => S2.calls[k].fired = 1
            /\ \A i \in CasesOfCall(k) :
                  S2.cases[i].value_ # NoValue =>
                      /\ S2.calls[k].fired = 1
                      /\ S2.calls[k].result.t = "case" => S2.calls[k].result.case = i
                      /\ \A j \in CasesOfCall(k) \ {i} : S2.cases[j].value_ = NoValue

\* C33 as stated: whenever selectChan completes over a list of cases, with a case,
\* with an abort or with an error, every case of the list except the one it
\* completes with has a null outcome, also when the case objects fired in an
\* earlier selectChan
C33_OtherCasesNull ==
    /\ \A f \in FiredLists, opts \in SelectAgainOpts, rand \in Randoms(PoolMax(Cur)) :
          \A rs \in ShuffleRandoms(Len(FilterCases(f.chans))) :
              OthersNull(selectChan(f.s, [chans |-> f.chans, default |-> opts.default,
                                          signal |-> opts.signal, silent |-> opts.silent],
                                    rs, rand),
                         Range(FilterCases(f.chans)))
    /\ ParkedOthersNull

\* C33 (amended): a selectChan whose signal is not already aborted at the call
\* clears the outcome of every case of its list before it tries them, so when it
\* completes, with a case, with an abort or with an error, every case of the list
\* except the one it completes with has a null outcome, also when the case objects
\* fired in an earlier selectChan; with a signal that is already aborted it leaves
\* the cases as they were
C33_OtherCasesNullUnlessAborted ==
    /\ \A f \in FiredLists, opts \in SelectAgainOpts, rand \in Randoms(PoolMax(Cur)) :
          \A rs \in ShuffleRandoms(Len(FilterCases(f.chans))) :
              \A r \in {selectChan(f.s, [chans |-> f.chans, default |-> opts.default,
                                         signal |-> opts.signal, silent |-> opts.silent],
                                   rs, rand)} :
                  IF opts.signal = "aborted" THEN r.s = f.s
                  ELSE OthersNull(r, Range(FilterCases(f.chans)))
    /\ ParkedOthersNull

\* a selectChan over two cases, the first of which had fired in an earlier
\* selectChan, returns the second: the first then has no outcome; and a parked
\* selectChan has been resolved with one of its cases
C33_Witness ==
    /\ \E f \in FiredLists :
          /\ Len(f.chans) = 2 /\ Null \notin Range(f.chans)
          /\ f.s.cases[f.chans[1]].value_ # NoValue
          /\ \E rs \in ShuffleRandoms(2) :
                \E r \in {selectChan(f.s, [chans |-> f.chans, default |-> FALSE,
                                           signal |-> "none", silent |-> TRUE],
                                     rs, [num |-> 0, den |-> 1])} :
                    /\ r.result = [t |-> "case", case |-> f.chans[2]]
                    /\ r.s.cases[f.chans[1]].value_ = NoValue
    /\ \E k \in DOMAIN calls :
          calls[k].kind = "select" /\ calls[k].status = "resolved" /\ calls[k].fired = 1

\* the parked actions call k holds a connection to
HeldBy(k) == IF calls[k].status = "pending" THEN CallRefs(Cur, k) ELSE {}

\* the reader pool and the writer pool of channel c, as sets of actions
PoolsOn(S, c) ==
    [r |-> Range(S.chan[c].r.actions.actions), w |-> Range(S.chan[c].w.actions.actions)]

\* call k was cancelled by its signal: its parked actions were disconnected
Cancelled(S, k) ==
    /\ S.calls[k].status # "pending"
    /\ "reason" \in DOMAIN S.calls[k].result
    /\ S.calls[k].result.reason = "abort"

\* close() calls back the action parked first on channel c: the heaps in which the
\* callback of that reader, or of that writer, has returned
FiredByClose(c) ==
    {[s |-> ReadActionInvoke([Cur EXCEPT !.chan[c].r.closed = TRUE],
                             chan[c].r.actions.actions[1], noResult),
      ref |-> [t |-> "r", a |-> chan[c].r.actions.actions[1]]] :
        x \in {y \in {1} : ~chan[c].r.closed /\ Len(chan[c].r.actions.actions) > 0}}
    \cup {[s |-> WirteActionClose([Cur EXCEPT !.chan[c].w.closed_ = TRUE],
                                  chan[c].w.actions.actions[1], "closed"),
           ref |-> [t |-> "w", a |-> chan[c].w.actions.actions[1]]] :
             x \in {y \in {1} : ~chan[c].w.closed_ /\ Len(chan[c].w.actions.actions) > 0}}

\* C34: the callbacks of the actions a call has parked run at most once between
\* them over its lifetime; a call whose actions were disconnected by the abort of
\* its signal has had none of them run, and none runs later; after any step, to
\* disconnect an action of a call that the step has settled (by firing or by
\* cancelling it) changes no pool; and when close() fires a parked action, the
\* disconnect its holder then makes changes no pool either: the action is still in
\* its pool when its callback returns
C34_WaiterFiresAtMostOnce ==
    /\ \A k \in DOMAIN calls :
          /\ calls[k].fired <= 1
          /\ Cancelled(Cur, k) => calls[k].fired = 0
    /\ \A S2 \in StepsOfOthers, k \in DOMAIN calls :
          /\ S2.calls[k].fired <= 1
          /\ Cancelled(S2, k) => S2.calls[k].fired = 0
          /\ S2.calls[k].status # "pending" =>
                \A conn \in HeldBy(k), c \in Chans :
                    PoolsOn(ConnDisconnect(S2, conn), c) = PoolsOn(S2, c)
    /\ \A c \in Chans : \A f \in FiredByClose(c) : f.ref.a \in PoolsOn(f.s, c)[f.ref.t]

\* the index of the first case of the order P whose tryInvoke on heap S completes
\* (returns true or throws), 0 when none does
FirstReady(S, P, silent, rand) ==
    LET done == {i \in DOMAIN P :
                    \E t \in {CaseTryInvoke(S, P[i], silent, rand)} :
                        IF t.status = "thrown" THEN TRUE ELSE t.r}
    IN IF done = {} THEN 0 ELSE CHOOSE i \in done : \A j \in done : i <= j

\* what C35 says of selectChan r, called on heap S with the array given (nulls
\* allowed): the array is left as it was; the order P in which the cases are tried
\* holds each non-null case of the array exactly once; a tryInvoke that does not
\* complete changes nothing; when case j is the first of P that completes, the heap
\* selectChan leaves is the heap that one tryInvoke leaves, so that no case after j
\* has acted, and selectChan returns P[j] or throws what it threw; when none
\* completes selectChan returns null for default and otherwise parks each case
\* once, in the order P
TriedOnceInOrder(S, given, opts, rs, rand) ==
    \A arr \in {SelectArrays(given, rs)} :
      \A P \in {arr.chans} :
        \A r \in {selectChan(S, [chans |-> given, default |-> opts.default,
                                 signal |-> opts.signal, silent |-> opts.silent], rs, rand)} :
          /\ arr.caller = given
          /\ Len(P) = Cardinality({i \in DOMAIN given : given[i] # Null})
          /\ Range(P) = Range(given) \ {Null}
          /\ \A i \in DOMAIN P :
                \A t \in {CaseTryInvoke(S, P[i], opts.silent, rand)} :
                    (t.status = "returned" /\ ~t.r) => t.s = S
          /\ \A j \in {FirstReady(S, P, opts.silent, rand)} :
                IF j # 0
                THEN \A t \in {CaseTryInvoke(S, P[j], opts.silent, rand)} :
                        /\ r.s = t.s
                        /\ IF t.status = "thrown" THEN r = Thrown(t.s, t.r)
                           ELSE r = Returned(t.s, [t |-> "case", case |-> P[j]])
                ELSE IF Len(P) = 0 THEN r.s.chan = S.chan
                ELSE IF opts.default THEN r = Returned(S, [t |-> "null"])
                ELSE /\ r.status = "promise"
                     /\ Len(r.s.calls[r.result.call].conns) = Len(P)
                     /\ \A i \in DOMAIN P :
                           CallbackOf(r.s, r.s.calls[r.result.call].conns[i]).case = P[i]
                     /\ Cardinality(PoolOf(r.s)) = Cardinality(PoolOf(S)) + Len(P)

\* C35: selectChan tries every non-null case of its list exactly once, in an order
\* that is a permutation of the list, and stops at the first case that completes:
\* the cases after it in that order perform no channel operation; the array the
\* caller passed is not reordered
C35_TriesEachCaseOnce ==
    \A shapes \in CaseLists(Chans), rand \in Randoms(PoolMax(Cur)) :
        \A m \in {MakeCases(shapes, cases, <<>>, nvals)} :
            \A rs \in ShuffleRandoms(Len(FilterCases(m.chans))) :
                \A opts \in [signal : {"none", "live"}, silent : BOOLEAN, default : BOOLEAN] :
                    TriedOnceInOrder([Cur EXCEPT !.cases = m.cases], m.chans, opts, rs, rand)

\* two read cases on a channel are both ready; the shuffle puts the second of the
\* caller's array first, selectChan returns it, and the other case has no outcome
\* and has read nothing
C35_Witness ==
    /\ got["c1"] # {}
    /\ \E m \in {MakeCases(<<[kind |-> "read", ch |-> "c1"], [kind |-> "read", ch |-> "c1"]>>,
                           cases, <<>>, nvals)} :
          \E rs \in ShuffleRandoms(2) :
             \E S \in {[Cur EXCEPT !.cases = m.cases]} :
                /\ SelectArrays(m.chans, rs).chans = <<m.chans[2], m.chans[1]>>
                /\ \A i \in {1, 2} :
                      CaseTryInvoke(S, m.chans[i], TRUE, [num |-> 0, den |-> 1]).r = TRUE
                /\ \E r \in {selectChan(S, [chans |-> m.chans, default |-> FALSE,
                                            signal |-> "none", silent |-> TRUE],
                                        rs, [num |-> 0, den |-> 1])} :
                      /\ r.result = [t |-> "case", case |-> m.chans[2]]
                      /\ r.s.cases[m.chans[1]].value_ = NoValue
                      /\ Cardinality(r.s.got["c1"]) = Cardinality(got["c1"]) + 1

\* C36: no public operation makes Reader.invoke or Writer.invoke throw 'reader
\* empty' or 'writer empty': no engine call has thrown in any reachable state, and
\* a tryRead, tryWrite, read, write, close() or abort made next throws none either
C36_PoolsNeverInvokedEmpty ==
    /\ err = "none"
    /\ \A S2 \in StepsOfOthers : S2.err = "none"
    /\ \A c \in Chans, silent \in BOOLEAN :
          /\ \A rand \in Randoms(WritersOf(Cur, c)) :
                /\ ChanTryRead(Cur, c, [signal |-> "none", silent |-> silent], rand).s.err = "none"
                /\ ChanRead(Cur, c, [signal |-> "live", silent |-> silent], rand).s.err = "none"
          /\ \A rand \in Randoms(ReadersOf(Cur, c)) :
                /\ ChanTryWrite(Cur, c, nvals + 1, [signal |-> "none", silent |-> silent],
                                rand).s.err = "none"
                /\ ChanWrite(Cur, c, nvals + 1, [signal |-> "live", silent |-> silent],
                             rand).s.err = "none"

\* values went through the open channel c1 and both of its pools are empty: a
\* tryWrite finds no reader to invoke and a tryRead no writer, and neither throws
C36_Witness ==
    /\ ~chan["c1"].isClosed /\ got["c1"] # {}
    /\ ReadersOf(Cur, "c1") = 0 /\ WritersOf(Cur, "c1") = 0
    /\ RWLength(Cur, "c1") = 0
    /\ ChanTryRead(Cur, "c1", [signal |-> "none", silent |-> TRUE],
                   [num |-> 0, den |-> 1]).s.err = "none"
    /\ ChanTryWrite(Cur, "c1", nvals + 1, [signal |-> "none", silent |-> TRUE],
                    [num |-> 0, den |-> 1]).s.err = "none"

\* selectChan over one new case of the given kind on channel c, without default
SelectOneNew(c, kind, silent) ==
    The({selectChan(a.s, [chans |-> <<a.case>>, default |-> FALSE, signal |-> "none",
                          silent |-> silent], <<0>>, [num |-> 0, den |-> 1]) :
           a \in {IF kind = "read" THEN ChanReadCase(Cur, c) ELSE ChanWriteCase(Cur, c, nvals + 1)}})

\* C37: once a channel is closed its reader pool and its writer pool are empty in
\* every state, and a read, a write or a selectChan over a case on it that is made
\* then does not park: it returns or throws at once
C37_NothingParkedOnClosed ==
    \A c \in Chans :
        chan[c].isClosed =>
            /\ ReadersOf(Cur, c) = 0
            /\ WritersOf(Cur, c) = 0
            /\ \A silent \in BOOLEAN :
                  /\ ChanRead(Cur, c, [signal |-> "live", silent |-> silent],
                              [num |-> 0, den |-> 1]).status # "promise"
                  /\ ChanWrite(Cur, c, nvals + 1, [signal |-> "live", silent |-> silent],
                               [num |-> 0, den |-> 1]).status # "promise"
                  /\ \A kind \in {"read", "write"} :
                        SelectOneNew(c, kind, silent).status # "promise"

\* a read case and a write case on channel c, in either order of the caller's array
BothWays(c) == {<<[kind |-> "read", ch |-> c], [kind |-> "write", ch |-> c]>>,
                <<[kind |-> "write", ch |-> c], [kind |-> "read", ch |-> c]>>}

\* the read case of heap S among the cases L has not been given value v
NotGiven(S, L, v) ==
    \A i \in L : (S.cases[i].kind = "read" /\ S.cases[i].value_ # NoValue) =>
                    S.cases[i].value_.value # v

\* what C38 says of the open unbuffered channel c on which nobody is parked, for a
\* selectChan without default over a read case and a write case (of value v) on c:
\* it returns a pending promise with both cases parked, nothing was read or written
\* and neither case has an outcome; a tryRead by another party then gets v and
\* resolves the call with the write case; a tryWrite(w) by another party resolves it
\* with the read case, which holds w; close() and the abort of its signal settle it
\* without v being read by anyone
NoSelfRendezvousOn(c) ==
    \A shapes \in BothWays(c), rs \in ShuffleRandoms(2) :
      \A opts \in [signal : {"none", "live"}, silent : BOOLEAN] :
        \A m \in {MakeCases(shapes, cases, <<>>, nvals)} :
          \A r \in {selectChan([Cur EXCEPT !.cases = m.cases],
                               [chans |-> m.chans, default |-> FALSE, signal |-> opts.signal,
                                silent |-> opts.silent], rs, [num |-> 0, den |-> 1])} :
            \A k \in {Len(calls) + 1}, L \in {Range(m.chans)}, v \in {m.v} :
              /\ r.status = "promise" /\ r.result.call = k
              /\ r.s.calls[k].status = "pending" /\ r.s.calls[k].fired = 0
              /\ r.s.got = got /\ r.s.oks = oks
              /\ \A i \in L : r.s.cases[i].value_ = NoValue
              /\ ReadersOf(r.s, c) = 1 /\ WritersOf(r.s, c) = 1
              /\ \A t \in {ChanTryRead(r.s, c, [signal |-> "none", silent |-> TRUE],
                                       [num |-> 0, den |-> 1])} :
                    /\ t.result = ReadValue("false", TRUE, v, "none")
                    /\ t.s.calls[k].status = "resolved"
                    /\ t.s.calls[k].result.t = "case"
                    /\ t.s.cases[t.s.calls[k].result.case].kind = "write"
                    /\ \A i \in L : t.s.cases[i].kind = "read" => t.s.cases[i].value_ = NoValue
              /\ \A t \in {ChanTryWrite(r.s, c, v + 1, [signal |-> "none", silent |-> TRUE],
                                        [num |-> 0, den |-> 1])} :
                    /\ t.result = WriteValue(TRUE, FALSE, "none")
                    /\ t.s.calls[k].status = "resolved"
                    /\ t.s.calls[k].result.t = "case"
                    /\ t.s.cases[t.s.calls[k].result.case].value_
                          = ReadValue("false", TRUE, v + 1, "none")
                    /\ \A i \in L : t.s.cases[i].kind = "write" => t.s.cases[i].value_ = NoValue
                    /\ v \notin t.s.got[c] /\ v \notin t.s.oks[c]
              /\ \A S2 \in {ChanClose(r.s, c).s} \cup
                           {SignalAbort(r.s, k) : x \in {y \in {1} : opts.signal = "live"}} :
                    /\ S2.calls[k].status # "pending"
                    /\ NotGiven(S2, L, v)
                    /\ v \notin S2.got[c] /\ v \notin S2.oks[c]

\* C38: a selectChan that parks a read case and a write case on the same unbuffered
\* channel stays pending until another party reads, writes or closes or its signal
\* aborts, and the value of its write case never reaches its own read case: not
\* when it parks, and not in the step that settles it
C38_NoSelfRendezvous ==
    /\ \A c \in Chans :
          (~chan[c].isClosed /\ ~HasList(Cur, c) /\ ReadersOf(Cur, c) = 0 /\ WritersOf(Cur, c) = 0)
              => NoSelfRendezvousOn(c)
    /\ \A k \in PendingSelects :
          /\ calls[k].fired = 0
          /\ \A i \in CasesOfCall(k) : cases[i].value_ = NoValue
          /\ \A S2 \in StepsOfOthers :
                \A j \in CasesOfCall(k) :
                    cases[j].kind = "write" =>
                        NotGiven(S2, {i \in CasesOfCall(k) : cases[i].ch = cases[j].ch}, cases[j].val)

\* a selectChan is pending with a read case and a write case parked on the
\* unbuffered channel c1, after values went through the channel
C38_Witness ==
    /\ ~HasList(Cur, "c1") /\ ~chan["c1"].isClosed /\ got["c1"] # {}
    /\ \E k \in PendingSelects :
          \E i, j \in CasesOfCall(k) :
             /\ cases[i].kind = "read" /\ cases[i].ch = "c1"
             /\ cases[j].kind = "write" /\ cases[j].ch = "c1"
             /\ ReaderPool(Cur, "c1") # {} /\ WriterPool(Cur, "c1") # {}

\* ---------------------------------------------------------------- Actions on its own
(***************************************************************************)
(* The Actions list of the reader of channel c1, driven directly: push of  *)
(* a new ReadAction (the actions are numbered as they are made, so that the *)
(* list is in ascending order until a removal moves its last element),     *)
(* pop, removeBy(i) for a valid i, remove(w) for any action made so far,    *)
(* stored or not, and clear.                                                *)
(***************************************************************************)
InitActions == InitOn({"c1"}, [cap |-> 0, vals |-> 0, calls |-> 0])

Stored == chan["c1"].r.actions

ActionsPushStep ==
    /\ Len(ract) < ActElems
    /\ ract' = Append(ract, [reader |-> "c1", callback |-> NoCallback])
    /\ chan' = [chan EXCEPT !["c1"].r.actions = ActionsPush(@, Len(ract) + 1)]
    /\ UNCHANGED <<wact, rlist, wlist, cases, calls, completers, err, oks, got, dup, q, fifo,
                   nvals, iter, lim>>

ActionsPopStep ==
    /\ ActionsLength(Stored) > 0
    /\ chan' = [chan EXCEPT !["c1"].r.actions = ActionsPop(@).A]
    /\ UNCHANGED <<ract, wact, rlist, wlist, cases, calls, completers, err, oks, got, dup, q, fifo,
                   nvals, iter, lim>>

ActionsRemoveByStep ==
    /\ \E i \in 0..(ActionsLength(Stored) - 1) :
          chan' = [chan EXCEPT !["c1"].r.actions = ActionsRemoveBy(@, i).A]
    /\ UNCHANGED <<ract, wact, rlist, wlist, cases, calls, completers, err, oks, got, dup, q, fifo,
                   nvals, iter, lim>>

ActionsRemoveStep ==
    /\ \E w \in DOMAIN ract : chan' = [chan EXCEPT !["c1"].r.actions = ActionsRemove(@, w)]
    /\ UNCHANGED <<ract, wact, rlist, wlist, cases, calls, completers, err, oks, got, dup, q, fifo,
                   nvals, iter, lim>>

ActionsClearStep ==
    /\ chan' = [chan EXCEPT !["c1"].r.actions = ActionsClear(@)]
    /\ UNCHANGED <<ract, wact, rlist, wlist, cases, calls, completers, err, oks, got, dup, q, fifo,
                   nvals, iter, lim>>

NextActions ==
    \/ ActionsPushStep
    \/ ActionsPopStep
    \/ ActionsRemoveByStep
    \/ ActionsRemoveStep
    \/ ActionsClearStep

SpecActions == InitActions /\ [][NextActions]_vars

\* the index of the Actions list A is exact: keys holds the stored elements and no
\* other, no element is stored twice, and keys gives each element the slot it is in
Indexed(A) ==
    /\ DOMAIN A.keys = Range(A.actions)
    /\ Cardinality(Range(A.actions)) = Len(A.actions)
    /\ \A w \in DOMAIN A.keys :
          A.keys[w] \in 0..(Len(A.actions) - 1) /\ A.actions[A.keys[w] + 1] = w

\* list B is list A without the element w, and its index is exact
Without(A, B, w) ==
    /\ Indexed(B)
    /\ Len(B.actions) = Len(A.actions) - 1
    /\ Range(B.actions) = Range(A.actions) \ {w}

\* C39: after any sequence of push, pop, removeBy(i), remove(w) and clear on distinct
\* elements the index of an Actions list is exact; remove(w) of an element that is
\* not stored changes nothing; pop, removeBy(i) and remove(w) take out exactly the
\* last element, the element of slot i and w, and leave the others stored; push
\* stores the new element last; clear leaves the list empty
C39_ActionsIndexExact ==
    /\ Indexed(Stored)
    /\ \A w \in 1..ActElems :
          IF w \in Range(Stored.actions)
          THEN Without(Stored, ActionsRemove(Stored, w), w)
          ELSE /\ ActionsRemove(Stored, w) = Stored
               /\ \A B \in {ActionsPush(Stored, w)} :
                     /\ Indexed(B)
                     /\ B.actions = Append(Stored.actions, w)
    /\ \A i \in 0..(ActionsLength(Stored) - 1) :
          \A p \in {ActionsRemoveBy(Stored, i)} :
              p.val = Stored.actions[i + 1] /\ Without(Stored, p.A, p.val)
    /\ ActionsLength(Stored) > 0 =>
          \A p \in {ActionsPop(Stored)} :
              /\ p.val = Stored.actions[Len(Stored.actions)]
              /\ Without(Stored, p.A, p.val)
              /\ p.A.actions = SubSeq(Stored.actions, 1, Len(Stored.actions) - 1)
    /\ ActionsClear(Stored) = Actions

\* every element was pushed, and removals from inside the list have moved later
\* elements in front of earlier ones: the list is in descending order
C39_Witness ==
    /\ Len(ract) = ActElems
    /\ Len(Stored.actions) >= 3
    /\ \A i \in 1..(Len(Stored.actions) - 1) : Stored.actions[i] > Stored.actions[i + 1]

\* ---------------------------------------------------------------- Ring on its own
(***************************************************************************)
(* The Ring of channel c1, of any capacity from 1 to RingCap, driven        *)
(* directly: push of a new value and pop, in any order.  q["c1"] is kept    *)
(* apart from the ring as the sequence a bounded FIFO holds after the same  *)
(* pushes and pops, and got["c1"] collects the values popped.               *)
(***************************************************************************)
InitRing ==
    /\ InitOn({"c1"}, [cap |-> RingCap, vals |-> RingVals, calls |-> 0])
    /\ chan["c1"].list # NoList

RingPushStep ==
    /\ nvals < lim.vals
    /\ chan' = [chan EXCEPT !["c1"].list = RingPush(@, nvals + 1).ring]
    /\ q' = [q EXCEPT !["c1"] = IF Len(@) < Len(chan["c1"].list.arrs)
                                THEN Append(@, nvals + 1) ELSE @]
    /\ nvals' = nvals + 1
    /\ UNCHANGED <<ract, wact, rlist, wlist, cases, calls, completers, err, oks, got, dup, fifo,
                   iter, lim>>

RingPopStep ==
    /\ chan' = [chan EXCEPT !["c1"].list = RingPop(@).ring]
    /\ got' = [got EXCEPT !["c1"] = IF RingPop(chan["c1"].list).done THEN @
                                    ELSE @ \cup {RingPop(chan["c1"].list).value}]
    /\ q' = [q EXCEPT !["c1"] = IF @ = <<>> THEN @ ELSE Tail(@)]
    /\ UNCHANGED <<ract, wact, rlist, wlist, cases, calls, completers, err, oks, dup, fifo,
                   nvals, iter, lim>>

NextRing ==
    \/ RingPushStep
    \/ RingPopStep

SpecRing == InitRing /\ [][NextRing]_vars

\* ring r holds the sequence Q, oldest first, from slot offset_ on and around the
\* end of the array
Holds(r, Q) ==
    /\ r.size_ = Len(Q)
    /\ Len(Q) <= Len(r.arrs)
    /\ r.offset_ \in 0..(Len(r.arrs) - 1)
    /\ \A i \in 1..Len(Q) : r.arrs[((r.offset_ + i - 1) % Len(r.arrs)) + 1] = Q[i]

\* C40: after any sequence of pushes and pops, wrap-around included, the Ring holds
\* what a bounded FIFO of its capacity holds; push fails exactly when the ring is
\* full and then changes nothing, and otherwise adds the value as the newest; pop
\* on the empty ring yields end-of-stream and changes nothing, and otherwise
\* returns the oldest value and leaves the others in their order
C40_RingIsBoundedFifo ==
    \A r \in {chan["c1"].list}, Q \in {q["c1"]} :
        /\ Holds(r, Q)
        /\ RingLength(r) = Len(Q) /\ RingCapacity(r) = Len(r.arrs)
        /\ \A p \in {RingPush(r, nvals + 1)} :
              IF Len(Q) = RingCapacity(r)
              THEN p = [ring |-> r, ok |-> FALSE]
              ELSE p.ok /\ Holds(p.ring, Append(Q, nvals + 1))
        /\ \A p \in {RingPop(r)} :
              IF Q = <<>>
              THEN p = [ring |-> r, done |-> TRUE, value |-> Null]
              ELSE ~p.done /\ p.value = Head(Q) /\ Holds(p.ring, Tail(Q))
        /\ \A i \in 1..Len(Q) : Q[i] \notin got["c1"]
        /\ \A i, j \in 1..Len(Q) : i < j => Q[i] < Q[j]

\* a ring of capacity 3 is full after values were popped, its contents run over
\* the end of the array, and a push was refused
C40_Witness ==
    /\ Len(chan["c1"].list.arrs) = 3
    /\ chan["c1"].list.size_ = 3
    /\ chan["c1"].list.offset_ > 0
    /\ got["c1"] # {}
    /\ nvals > Len(q["c1"]) + Cardinality(got["c1"])

====
